---- MODULE Spec2Model ----
(***************************************************************************)
(* A model of the letter-from-future demo: the projection engine           *)
(* (src/lib/projections.ts), the letter rules (letterRules), the template  *)
(* letter engine (src/lib/letter/templateLetter.ts), the rate limiter, the *)
(* validator and the POST handler of the letter route.                     *)
(*                                                                         *)
(* Text is a sequence of UTF-16 code units (every character the program    *)
(* handles here is in the basic plane, so one unit is one character); the  *)
(* text each tuple spells is written in the comment that follows it.       *)
(* Numbers are JavaScript doubles in the source; the model keeps every     *)
(* intermediate value inside 32-bit integers by splitting products.        *)
(***************************************************************************)
EXTENDS Integers, Sequences, FiniteSets, TLC

VARIABLES
  \* one call of the pure engines (projection, template letter)
  input,            \* the LetterInput under computation
  projections,      \* what computeProjections returned for input, <<>> before
  variant,          \* the variant handed to buildTemplateLetterVariant
  severityOverride, \* the severityOverride argument, NoOverride when absent
  letter,           \* the letter the engine returned, <<>> before
  op,               \* the function that returned letter, "none" before
  parsePayload,     \* the body handed to parseLetterInput, <<>> when none
  parseResult,      \* what parseLetterInput returned for it, <<>> before
  sevenLines,       \* what hasSevenLines returned for letter, <<>> before
  \* the server that runs the POST handler
  now,              \* Date.now()
  buckets,          \* rateLimit's buckets: ip -> timestamps
  polishCache,      \* route's polishCache: cache key -> letter
  apiKey,           \* process.env.OPENAI_API_KEY, <<>> when unset
  sdk,              \* the create methods the OpenAI client offers
  pending,          \* the handler invocations awaiting generateStructuredJson
  response,         \* the response the handler sent last
  started,          \* how many requests have arrived
  calls             \* the direct calls of checkRateLimit, with their answers

engineVars ==
  <<input, projections, variant, severityOverride, letter, op,
    parsePayload, parseResult, sevenLines>>

serverVars ==
  <<now, buckets, polishCache, apiKey, sdk, pending, response, started, calls>>

vars == <<input, projections, variant, severityOverride, letter, op,
          parsePayload, parseResult, sevenLines,
          now, buckets, polishCache, apiKey, sdk, pending, response, started,
          calls>>

\* An absent optional argument: present ones are one-element sequences.
NoOverride == <<>>

\* The bounds of the handler runs: requests started, requests waiting for
\* the external call at once, the clock, and the length of an over-long line.
MaxRequests == 4

MaxPending == 1

MaxNow == 62000

LongLineLen == 190

----------------------------------------------------------------------------
(* Arithmetic helpers: Math.min, Math.max, Math.round *)

Min(a, b) == IF a <= b THEN a ELSE b

Max(a, b) == IF a >= b THEN a ELSE b

\* Math.round(n / d) for d > 0: the nearest integer, a tie going up.
RoundDiv(n, d) == (2 * n + d) \div (2 * d)

\* Math.round(n / d) for 0 <= n and d > 0 where 2 * n may pass 2^31.
RoundQuot(n, d) == (n \div d) + (IF 2 * (n % d) >= d THEN 1 ELSE 0)

\* <<(a * b) \div c, (a * b) % c>> for 0 <= a <= c, 0 <= b, c > 0, by
\* halving b, so that no intermediate value passes 3 * c.
RECURSIVE MulDivMod(_, _, _)
MulDivMod(a, b, c) ==
  IF b = 0 THEN <<0, 0>>
  ELSE LET h == MulDivMod(a, b \div 2, c)
           r == 2 * h[2] + (IF b % 2 = 1 THEN a ELSE 0)
       IN <<2 * h[1] + (r \div c), r % c>>

\* Math.round(a * (b / c)) for 0 <= a <= c, 0 <= b, c > 0.
RoundMulDiv(a, b, c) ==
  LET qr == MulDivMod(a, b, c)
  IN qr[1] + (IF 2 * qr[2] >= c THEN 1 ELSE 0)

\* x * (d[1] + d[2]/10^4 + d[3]/10^8 + d[4]/10^12) for 0 <= x <= 2 * 10^8,
\* as <<yen, units of 10^-4 yen>>.
FixMul(x, d) ==
  LET xh == x \div 10000
      xl == x % 10000
  IN <<x * d[1] + xh * d[2] + ((xl * d[2]) \div 10000) + ((xh * d[3]) \div 10000),
       ((xl * d[2]) % 10000) + ((xh * d[3]) % 10000)
         + ((xl * d[3]) \div 10000) + ((xh * d[4]) \div 10000)>>

----------------------------------------------------------------------------
(* src/lib/projections.ts, lines 98-222 *)

\* RATES = [0.02, 0.06], in percent a year.
RATES == <<2, 6>>

\* A projection horizon of twenty years in place of ten.
YEARS_AsTwenty == 2 * 10

YEARS == 10

SINGLE_SPENDING == 169547

MULTI_SPENDING == 300243

KANTO_SPEND_SINGLE_MONTHLY == 197900

KANTO_SPEND_MULTI_MONTHLY == 349900

\* Math.pow(1 + rate / 12, 120), the double the source computes, cut to
\* twelve decimals: 1.221199433862 at 2 %, 1.819396734032 at 6 %.
GrowthDigits(rate) ==
  IF rate = 2 THEN <<1, 2211, 9943, 3862>> ELSE <<1, 8193, 9673, 4032>>

\* (growth - 1) / (rate / 12), likewise: 132.719660317508 and
\* 163.879346806458.
AnnuityDigits(rate) ==
  IF rate = 2 THEN <<132, 7196, 6031, 7508>> ELSE <<163, 8793, 4680, 6458>>

computeInvestFuture_SwapRates(currentInvest, monthlyInvest, years, annualRate) ==
  LET other == IF annualRate = 2 THEN 6 ELSE 2
      g == FixMul(currentInvest, GrowthDigits(other))
      a == FixMul(monthlyInvest, AnnuityDigits(other))
      units == g[2] + a[2]
  IN g[1] + a[1] + (units \div 10000)
       + (IF units % 10000 >= 5000 THEN 1 ELSE 0)

\* The future value without growth, as for a rate of 0.
computeInvestFuture_NoGrowth(currentInvest, monthlyInvest, years, annualRate) ==
  currentInvest + monthlyInvest * (years * 12)

computeInvestFuture(currentInvest, monthlyInvest, years, annualRate) ==
  IF annualRate = 0
  THEN currentInvest + monthlyInvest * (years * 12)
  ELSE LET g == FixMul(currentInvest, GrowthDigits(annualRate))
           a == FixMul(monthlyInvest, AnnuityDigits(annualRate))
           units == g[2] + a[2]
       IN g[1] + a[1] + (units \div 10000)
            + (IF units % 10000 >= 5000 THEN 1 ELSE 0)

\* Math.round(MULTI_SPENDING * Math.pow(householdSize / 2.88, 0.85)) for
\* the household sizes 2..10 a valid input can reach (6 now + 4 children).
ScaledSpending ==
  <<122177, 220224, 310844, 396954, 479859,
    560296, 638738, 715510, 790852, 864947>>

estimateSpendingMonthly(householdSize) ==
  IF householdSize <= 1 THEN SINGLE_SPENDING
  ELSE ScaledSpending[householdSize]

\* The tiers with their upper edges included.
computeLifeQualityTier_Inclusive(in) ==
  LET baselineSpend == IF in.household_now = 1
                       THEN KANTO_SPEND_SINGLE_MONTHLY
                       ELSE KANTO_SPEND_MULTI_MONTHLY
      planned == in.monthly_savings_jpy + in.monthly_invest_jpy
      cashflow12 == in.annual_income_jpy - 12 * (baselineSpend + planned)
  IN IF cashflow12 <= 0 THEN 1
     ELSE IF cashflow12 <= 12 * 20000 THEN 2
     ELSE IF cashflow12 <= 12 * 60000 THEN 3
     ELSE IF cashflow12 <= 12 * 120000 THEN 4
     ELSE 5

computeLifeQualityTier(in) ==
  LET baselineSpend == IF in.household_now = 1
                       THEN KANTO_SPEND_SINGLE_MONTHLY
                       ELSE KANTO_SPEND_MULTI_MONTHLY
      planned == in.monthly_savings_jpy + in.monthly_invest_jpy
      \* cashflowAfterPlan = income / 12 - baselineSpend - planned, times 12
      cashflow12 == in.annual_income_jpy - 12 * (baselineSpend + planned)
  IN IF cashflow12 < 0 THEN 1
     ELSE IF cashflow12 < 12 * 20000 THEN 2
     ELSE IF cashflow12 < 12 * 60000 THEN 3
     ELSE IF cashflow12 < 12 * 120000 THEN 4
     ELSE 5

LABEL_FAR == <<12414, 12384, 36960, 12356>> (* まだ遠い *)

LABEL_ALMOST == <<12418, 12358, 23569, 12375>> (* もう少し *)

LABEL_ACHIEVED == <<36948, 25104, 12391, 12365, 12390, 12427>> (* 達成できてる *)

\* The label decided by the runway alone, without the usable contribution.
goalGapLabel_RunwayOnly(usedMonthlyTotalHigh, runwayMax) ==
  IF runwayMax < 6 THEN LABEL_FAR
  ELSE IF runwayMax < 12 THEN LABEL_ALMOST
  ELSE LABEL_ACHIEVED

goalGapLabel(usedMonthlyTotalHigh, runwayMax) ==
  IF usedMonthlyTotalHigh = 0 \/ runwayMax < 6 THEN LABEL_FAR
  ELSE IF runwayMax < 12 THEN LABEL_ALMOST
  ELSE LABEL_ACHIEVED

\* Savings that grow at the lower rate, where the source adds them up.
savingsFuture_Compounded(currentSavings, monthlySavings) ==
  computeInvestFuture(currentSavings, monthlySavings, YEARS, 2)

savingsFuture(currentSavings, monthlySavings) ==
  currentSavings + monthlySavings * 12 * YEARS

\* The contribution taken as stated, without the cap at the surplus.
usedMonthlyTotal_Uncapped(userMonthlyTotal, surplus) == userMonthlyTotal

usedMonthlyTotal(userMonthlyTotal, surplus) == Min(userMonthlyTotal, surplus)

\* The surplus without its floor at zero.
surplus_Unfloored(takehomeLessSpending) == takehomeLessSpending

\* Math.max(0, Math.round(takehome - spending10y))
surplus(takehomeLessSpending) == Max(0, takehomeLessSpending)

computeProjections(in) ==
  LET householdNow == in.household_now
      householdFuture == householdNow + in.kids_future
      spendingNow == estimateSpendingMonthly(householdNow)
      spendingFuture == estimateSpendingMonthly(householdFuture)
      spending10y == RoundDiv(spendingNow + spendingFuture, 2)
      \* takehomeLow = income / 12 * 0.75 = income / 16
      surplusLow == surplus(RoundDiv(in.annual_income_jpy - 16 * spending10y, 16))
      \* takehomeHigh = income / 12 * 0.85 = 17 * income / 240
      surplusHigh ==
        surplus(RoundDiv(17 * in.annual_income_jpy - 240 * spending10y, 240))
      userMonthlyTotal == in.monthly_savings_jpy + in.monthly_invest_jpy
      usedMonthlyTotalLow == usedMonthlyTotal(userMonthlyTotal, surplusLow)
      usedMonthlyTotalHigh == usedMonthlyTotal(userMonthlyTotal, surplusHigh)
      usedMonthlySavings ==
        IF userMonthlyTotal > 0
        THEN RoundMulDiv(usedMonthlyTotalLow, in.monthly_savings_jpy,
                         userMonthlyTotal)
        ELSE 0
      usedMonthlyInvest ==
        IF userMonthlyTotal > 0
        THEN RoundMulDiv(usedMonthlyTotalLow, in.monthly_invest_jpy,
                         userMonthlyTotal)
        ELSE 0
      savingsFuture_ == savingsFuture(in.current_savings_jpy,
                                      in.monthly_savings_jpy)
      investValues ==
        [i \in 1..Len(RATES) |->
           computeInvestFuture(in.current_invest_jpy, in.monthly_invest_jpy,
                               YEARS, RATES[i])]
      investMin == Min(investValues[1], investValues[2])
      investMax == Max(investValues[1], investValues[2])
      runwayMin == IF spending10y > 0
                   THEN RoundQuot(savingsFuture_ + investMin, spending10y) ELSE 0
      runwayMax == IF spending10y > 0
                   THEN RoundQuot(savingsFuture_ + investMax, spending10y) ELSE 0
  IN << [ years |-> YEARS,
          savings_future |-> savingsFuture_,
          invest_min |-> investMin,
          invest_max |-> investMax,
          total_min |-> savingsFuture_ + investMin,
          total_max |-> savingsFuture_ + investMax,
          monthly_spending_est_now |-> spendingNow,
          monthly_spending_est_future |-> spendingFuture,
          monthly_spending_est_10y |-> spending10y,
          monthly_surplus_est_low |-> surplusLow,
          monthly_surplus_est_high |-> surplusHigh,
          used_monthly_savings |-> usedMonthlySavings,
          used_monthly_invest |-> usedMonthlyInvest,
          used_monthly_total |-> usedMonthlySavings + usedMonthlyInvest,
          used_monthly_total_low |-> usedMonthlyTotalLow,
          used_monthly_total_high |-> usedMonthlyTotalHigh,
          runway_months_min |-> runwayMin,
          runway_months_max |-> runwayMax,
          goal_gap_label |-> goalGapLabel(usedMonthlyTotalHigh, runwayMax),
          life_quality_tier |-> computeLifeQualityTier(in) ] >>

----------------------------------------------------------------------------
(* Text helpers: the String methods the source uses *)

\* The white space String.prototype.trim and the regular expression \s strip.
IsSpace(c) ==
  c \in {9, 10, 11, 12, 13, 32, 160, 5760, 8232, 8233, 8239, 8287, 12288, 65279}
    \/ (c >= 8192 /\ c <= 8202)

\* text.slice(from - 1, to): the characters from..to, empty when to < from.
Slice(text, from, to) == SubSeq(text, from, to)

MatchAt(text, pat, i) ==
  /\ i + Len(pat) - 1 <= Len(text)
  /\ \A k \in 1..Len(pat) : text[i + k - 1] = pat[k]

\* text.indexOf(pat, start - 1) + 1: the first match at or after start, or 0.
IndexFrom(text, pat, start) ==
  LET hits == {i \in start..(Len(text) - Len(pat) + 1) : MatchAt(text, pat, i)}
  IN IF hits = {} THEN 0
     ELSE CHOOSE i \in hits : \A j \in hits : i <= j

\* text.includes(pat)
Includes(text, pat) == \E i \in 1..(Len(text) - Len(pat) + 1) : MatchAt(text, pat, i)

\* A regular expression that is an alternation of literals: (a|b|c).test(text)
IncludesAny(text, pats) == \E p \in pats : Includes(text, p)

StartsWith(text, pat) == MatchAt(text, pat, 1)

EndsWith(text, pat) ==
  Len(pat) <= Len(text) /\ MatchAt(text, pat, Len(text) - Len(pat) + 1)

\* text.replace(/^[\s　]+/, ""), text.trimStart()
TrimStart(text) ==
  LET kept == {i \in 1..Len(text) : ~IsSpace(text[i])}
  IN IF kept = {} THEN <<>>
     ELSE SubSeq(text, (CHOOSE i \in kept : \A j \in kept : i <= j), Len(text))

\* text.trimEnd()
TrimEnd(text) ==
  LET kept == {i \in 1..Len(text) : ~IsSpace(text[i])}
  IN IF kept = {} THEN <<>>
     ELSE SubSeq(text, 1, (CHOOSE i \in kept : \A j \in kept : i >= j))

\* text.trim()
Trim(text) == TrimEnd(TrimStart(text))

\* text.split(sep) for a one-character separator, from position start on.
RECURSIVE SplitFrom(_, _, _)
SplitFrom(text, sep, start) ==
  LET i == IndexFrom(text, sep, start)
  IN IF i = 0 THEN << SubSeq(text, start, Len(text)) >>
     ELSE << SubSeq(text, start, i - 1) >> \o SplitFrom(text, sep, i + 1)

NEWLINE == <<10>> (* \n *)

\* text.split(/\n/)
SplitLines(text) == SplitFrom(text, NEWLINE, 1)

\* lines.join("\n")
RECURSIVE JoinLines(_)
JoinLines(lines) ==
  IF lines = <<>> THEN <<>>
  ELSE IF Len(lines) = 1 THEN lines[1]
  ELSE lines[1] \o NEWLINE \o JoinLines(Tail(lines))

\* text.replaceAll(pat, rep) for a non-empty pat, from position start on.
RECURSIVE ReplaceAllFrom(_, _, _, _)
ReplaceAllFrom(text, pat, rep, start) ==
  LET i == IndexFrom(text, pat, start)
  IN IF i = 0 THEN SubSeq(text, start, Len(text))
     ELSE SubSeq(text, start, i - 1) \o rep
            \o ReplaceAllFrom(text, pat, rep, i + Len(pat))

ReplaceAll(text, pat, rep) == ReplaceAllFrom(text, pat, rep, 1)

\* text.replace(pat, rep) for a literal pat: the first match only.
SpliceAt(text, i, n, rep) ==
  IF i = 0 THEN text
  ELSE SubSeq(text, 1, i - 1) \o rep \o SubSeq(text, i + n, Len(text))

ReplaceFirst(text, pat, rep) ==
  SpliceAt(text, IndexFrom(text, pat, 1), Len(pat), rep)

\* text.startsWith(prefix) ? rep + text.slice(prefix.length) : text
ReplacePrefix(text, prefix, rep) ==
  IF StartsWith(text, prefix)
  THEN rep \o SubSeq(text, Len(prefix) + 1, Len(text))
  ELSE text

\* (text.match(/c/g) ?? []).length for a one-character c
CountOf(text, c) == Cardinality({i \in 1..Len(text) : text[i] = c[1]})

\* lines.filter(Boolean): the lines that are not the empty string
FilterNonEmpty(lines) == SelectSeq(lines, LAMBDA line : line # <<>>)

\* text.toLowerCase() on the Latin capitals, the only cased letters in use.
ToLowerCase(text) ==
  [i \in 1..Len(text) |->
     IF text[i] >= 65 /\ text[i] <= 90 THEN text[i] + 32 ELSE text[i]]

\* String(d) for one decimal digit
DigitText(d) == << 48 + d >>

----------------------------------------------------------------------------
(* letterRules: src/unnamed/part_007 *)

FORBIDDEN_LETTER_TERMS ==
  { <<12524, 12531, 12472>> (* レンジ *), <<27604, 29575>> (* 比率 *), <<37>> (* % *), <<19978, 38480>> (* 上限 *), <<31246, 24341>> (* 税引 *), <<20870>> (* 円 *), <<19975, 20870>> (* 万円 *),
    <<26376>> (* 月 *), <<24180, 21454>> (* 年収 *), <<25163, 21462, 12426>> (* 手取り *), <<23478, 35336, 35519, 26619>> (* 家計調査 *), <<28040, 36027, 25903, 20986>> (* 消費支出 *), <<20108, 20154, 20197, 19978>> (* 二人以上 *),
    <<72, 97, 98, 105, 116, 116, 111>> (* Habitto *) }

hasForbiddenLetterTerms(text) == IncludesAny(text, FORBIDDEN_LETTER_TERMS)

PROHIBITED_LETTER_PHRASES ==
  { <<21475, 24231, 38283, 35373>> (* 口座開設 *), <<21475, 24231, 12434, 20316, 12387, 12390>> (* 口座を作って *), <<21475, 24231, 20316, 25104>> (* 口座作成 *), <<20170, 26085, 12398, 28310, 20633>> (* 今日の準備 *),
    <<20170, 26085, 12398, 28310, 20633, 12395, 12363, 12363, 12387, 12390, 12427>> (* 今日の準備にかかってる *), <<20170, 26085, 12398, 28310, 20633, 12395, 12363, 12363, 12387, 12390, 12356, 12427>> (* 今日の準備にかかっている *),
    <<20170, 26085, 12398, 28310, 20633, 12395, 12363, 12363, 12387, 12390, 12383>> (* 今日の準備にかかってた *), <<20170, 26085, 12398, 28310, 20633, 12395, 12363, 12363, 12387, 12390, 12356, 12383>> (* 今日の準備にかかっていた *) }

hasProhibitedLetterPhrases(text) == IncludesAny(text, PROHIBITED_LETTER_PHRASES)

REQUIRED_HOOK_SENTENCE == <<21313, 24180, 24460, 12398, 23433, 24515, 12399, 12289, 12354, 12398, 26085, 12398, 28310, 20633, 12395, 12363, 12363, 12387, 12390, 12383, 12392, 24605, 12358, 12290>> (* 十年後の安心は、あの日の準備にかかってたと思う。 *)

REQUIRED_METHODS_SENTENCE ==
  <<29702, 24819, 12398, 26410, 26469, 12434, 21109, 12427, 65299, 12388, 12398, 26041, 27861, 12399, 12289, 12300, 36015, 12417, 12427, 24037, 22827, 12301, 12539, 12300, 36066, 12367, 20351, 12358, 12301, 12539, 12300, 12503, 12525, 12395, 30456, 35527, 12377, 12427, 12301, 12384, 12424, 12290>> (* 理想の未来を創る３つの方法は、「貯める工夫」・「賢く使う」・「プロに相談する」だよ。 *)

hasRequiredHookPhrase(text) == Includes(text, REQUIRED_HOOK_SENTENCE)

hasSevenLines(text) == Len(FilterNonEmpty(SplitLines(text))) = 7

MARU == <<12290>> (* 。 *)

hasSingleSentenceLine4(text) ==
  LET lines == SplitLines(text)
  IN IF Len(lines) < 4 THEN FALSE
     ELSE LET line == Trim(lines[4])
          IN IF line = <<>> THEN FALSE
             ELSE CountOf(line, MARU) = 1 /\ EndsWith(line, MARU)

hasRequiredLine5Hook(text) ==
  LET lines == SplitLines(text)
  IN Len(lines) >= 5 /\ Trim(lines[5]) = REQUIRED_HOOK_SENTENCE

hasRequiredLine6Methods(text) ==
  LET lines == SplitLines(text)
  IN Len(lines) >= 6 /\ Trim(lines[6]) = REQUIRED_METHODS_SENTENCE

\* The branch taken for a projection that carries life_quality_tier, as every
\* record of computeProjections does.
\* The tier taken as the severity, without the inversion.
computeGapSeverity_Direct(in, projection) ==
  projection.life_quality_tier - 1

computeGapSeverity(in, projection) ==
  LET tier == projection.life_quality_tier
  IN IF tier <= 1 THEN 4
     ELSE IF tier = 2 THEN 3
     ELSE IF tier = 3 THEN 2
     ELSE IF tier = 4 THEN 1
     ELSE 0

----------------------------------------------------------------------------
(* The template letter engine: src/lib/letter/templateLetter.ts, 510-1090 *)

GOALS == {"entrepreneur", "fire", "mortgage", "overseas", "other"}

\* The characters of input.goal, as the seed string interpolates them.
GoalText(goal) ==
  IF goal = "entrepreneur" THEN <<101, 110, 116, 114, 101, 112, 114, 101, 110, 101, 117, 114>> (* entrepreneur *)
  ELSE IF goal = "fire" THEN <<102, 105, 114, 101>> (* fire *)
  ELSE IF goal = "mortgage" THEN <<109, 111, 114, 116, 103, 97, 103, 101>> (* mortgage *)
  ELSE IF goal = "overseas" THEN <<111, 118, 101, 114, 115, 101, 97, 115>> (* overseas *)
  ELSE <<111, 116, 104, 101, 114>> (* other *)

GOAL_CODE(goal) ==
  IF goal = "entrepreneur" THEN 1
  ELSE IF goal = "fire" THEN 2
  ELSE IF goal = "mortgage" THEN 3
  ELSE IF goal = "overseas" THEN 4
  ELSE 5

LINE4_BY_SEVERITY ==
  << << <<20170, 12398, 26286, 12425, 12375, 12399, 33853, 12385, 30528, 12356, 12390, 12390, 12289, 27425, 12398, 36984, 25246, 12418, 28966, 12425, 12378, 36914, 12417, 12425, 12428, 12427, 24863, 12376, 12290>> (* 今の暮らしは落ち着いてて、次の選択も焦らず進められる感じ。 *),
       <<29983, 27963, 12399, 33853, 12385, 30528, 12356, 12390, 12390, 12289, 27425, 12398, 36984, 25246, 12395, 36855, 12356, 12364, 23569, 12394, 12356, 12363, 12394, 12290>> (* 生活は落ち着いてて、次の選択に迷いが少ないかな。 *),
       <<29983, 27963, 12399, 23433, 23450, 12375, 12390, 12427, 12375, 12289, 36914, 12417, 26041, 12418, 35211, 12360, 12390, 12427, 24863, 12376, 12290>> (* 生活は安定してるし、進め方も見えてる感じ。 *) >>,
    << <<29983, 27963, 12399, 20445, 12390, 12390, 12427, 12369, 12393, 12289, 23569, 12375, 25972, 12360, 12427, 20313, 22320, 12399, 12354, 12427, 12363, 12418, 12290>> (* 生活は保ててるけど、少し整える余地はあるかも。 *),
       <<29983, 27963, 12399, 32154, 12356, 12390, 12427, 12369, 12393, 12289, 35211, 30452, 12379, 12427, 12392, 12371, 12429, 12364, 27531, 12387, 12390, 12427, 12397, 12290>> (* 生活は続いてるけど、見直せるところが残ってるね。 *),
       <<29983, 27963, 12399, 20445, 12390, 12390, 12427, 12375, 12289, 25972, 12360, 12427, 12392, 12418, 12358, 23569, 12375, 27005, 12395, 12394, 12426, 12381, 12358, 12290>> (* 生活は保ててるし、整えるともう少し楽になりそう。 *) >>,
    << <<29983, 27963, 12399, 32154, 12356, 12390, 12427, 12369, 12393, 12289, 36000, 25285, 12364, 12376, 12431, 12387, 12392, 31309, 12418, 12387, 12390, 12427, 24863, 12376, 12290>> (* 生活は続いてるけど、負担がじわっと積もってる感じ。 *),
       <<29983, 27963, 12399, 22238, 12387, 12390, 12427, 12369, 12393, 12289, 20313, 35029, 12398, 12394, 12373, 12434, 24863, 12376, 12427, 12397, 12290>> (* 生活は回ってるけど、余裕のなさを感じるね。 *),
       <<26222, 27573, 12399, 22238, 12387, 12390, 12427, 12369, 12393, 12289, 12405, 12392, 12375, 12383, 12392, 12365, 12395, 12375, 12435, 12393, 12367, 12394, 12427, 26085, 12418, 12354, 12427, 12435, 12384, 12290>> (* 普段は回ってるけど、ふとしたときにしんどくなる日もあるんだ。 *) >>,
    << <<29983, 27963, 12399, 12462, 12522, 12462, 12522, 12391, 12289, 36984, 25246, 32930, 12364, 29421, 12367, 24863, 12376, 12427, 12435, 12384, 12290>> (* 生活はギリギリで、選択肢が狭く感じるんだ。 *),
       <<29983, 27963, 12399, 21427, 12375, 12367, 12390, 12289, 35519, 25972, 12364, 24517, 35201, 12384, 12392, 24863, 12376, 12427, 12290>> (* 生活は厳しくて、調整が必要だと感じる。 *),
       <<29983, 27963, 12399, 33510, 12375, 12367, 12390, 12289, 31435, 12390, 30452, 12375, 12434, 24613, 12366, 12383, 12356, 24863, 12376, 12290>> (* 生活は苦しくて、立て直しを急ぎたい感じ。 *) >>,
    << <<29983, 27963, 12399, 12363, 12394, 12426, 21427, 12375, 12367, 12390, 12289, 20170, 12398, 12414, 12414, 12384, 12392, 25345, 12383, 12394, 12356, 27671, 12364, 12377, 12427, 12435, 12384, 12290>> (* 生活はかなり厳しくて、今のままだと持たない気がするんだ。 *),
       <<29983, 27963, 12399, 33510, 12375, 12367, 12390, 12289, 26089, 12417, 12398, 35519, 25972, 12364, 24517, 35201, 12384, 12392, 24605, 12358, 12290>> (* 生活は苦しくて、早めの調整が必要だと思う。 *),
       <<29983, 27963, 12399, 12375, 12435, 12393, 12367, 12390, 12289, 20170, 12398, 12414, 12414, 12384, 12392, 32154, 12363, 12394, 12356, 27671, 12364, 12377, 12427, 12290>> (* 生活はしんどくて、今のままだと続かない気がする。 *) >> >>

PLAN_BY_GOAL(goal) ==
  IF goal = "entrepreneur"
  THEN [ save |-> <<25361, 25126, 12398, 12383, 12417, 12398, 20313, 30333, 12434, 20808, 12395, 30906, 20445, 12377, 12427>> (* 挑戦のための余白を先に確保する *),
         grow |-> <<26410, 26469, 12398, 36984, 25246, 32930, 12434, 22679, 12420, 12377, 32722, 24931, 12434, 25972, 12360, 12427>> (* 未来の選択肢を増やす習慣を整える *),
         protect |-> <<19981, 23433, 12364, 20986, 12390, 12418, 25147, 12428, 12427, 22303, 21488, 12434, 25345, 12388>> (* 不安が出ても戻れる土台を持つ *),
         cta |-> <<19968, 24230, 12503, 12525, 12392, 35441, 12375, 12390, 12289, 25361, 25126, 12395, 21521, 12369, 12383, 28310, 20633, 12434, 25972, 12360, 12424, 12358, 12290>> (* 一度プロと話して、挑戦に向けた準備を整えよう。 *) ]
  ELSE IF goal = "fire"
  THEN [ save |-> <<31311, 12420, 12363, 12394, 26178, 38291, 12434, 23432, 12427, 12383, 12417, 12395, 20313, 30333, 12434, 20316, 12427>> (* 穏やかな時間を守るために余白を作る *),
         grow |-> <<22679, 12420, 12375, 26041, 12398, 30294, 12434, 12420, 12373, 12375, 12367, 25972, 12360, 12427>> (* 増やし方の癖をやさしく整える *),
         protect |-> <<23433, 24515, 12364, 32154, 12367, 20181, 32068, 12415, 12434, 25345, 12388>> (* 安心が続く仕組みを持つ *),
         cta |-> <<19968, 24230, 12503, 12525, 12392, 35441, 12375, 12390, 12289, 31311, 12420, 12363, 12394, 26410, 26469, 12408, 12398, 28310, 20633, 12434, 25972, 12360, 12424, 12358, 12290>> (* 一度プロと話して、穏やかな未来への準備を整えよう。 *) ]
  ELSE IF goal = "mortgage"
  THEN [ save |-> <<20303, 12414, 12356, 12398, 23433, 24515, 12395, 21521, 12369, 12390, 20313, 30333, 12434, 20316, 12427>> (* 住まいの安心に向けて余白を作る *),
         grow |-> <<36914, 12417, 26041, 12398, 12463, 12475, 12434, 12420, 12373, 12375, 12367, 25972, 12360, 12427>> (* 進め方のクセをやさしく整える *),
         protect |-> <<23433, 24515, 12364, 32154, 12367, 22303, 21488, 12434, 25345, 12388>> (* 安心が続く土台を持つ *),
         cta |-> <<19968, 24230, 12503, 12525, 12392, 35441, 12375, 12390, 12289, 20303, 12414, 12356, 12398, 23433, 24515, 12395, 21521, 12369, 12383, 28310, 20633, 12434, 25972, 12360, 12424, 12358, 12290>> (* 一度プロと話して、住まいの安心に向けた準備を整えよう。 *) ]
  ELSE IF goal = "overseas"
  THEN [ save |-> <<31227, 21205, 12398, 12383, 12417, 12398, 20313, 30333, 12434, 20808, 12395, 30906, 20445, 12377, 12427>> (* 移動のための余白を先に確保する *),
         grow |-> <<36984, 25246, 32930, 12364, 24195, 12364, 12427, 25972, 12360, 26041, 12434, 25345, 12388>> (* 選択肢が広がる整え方を持つ *),
         protect |-> <<22793, 21270, 12395, 24375, 12356, 22303, 21488, 12434, 25345, 12388>> (* 変化に強い土台を持つ *),
         cta |-> <<19968, 24230, 12503, 12525, 12392, 35441, 12375, 12390, 12289, 31227, 21205, 12398, 26410, 26469, 12395, 21521, 12369, 12383, 28310, 20633, 12434, 25972, 12360, 12424, 12358, 12290>> (* 一度プロと話して、移動の未来に向けた準備を整えよう。 *) ]
  ELSE [ save |-> <<20313, 30333, 12434, 20808, 12395, 30906, 20445, 12377, 12427>> (* 余白を先に確保する *),
         grow |-> <<22679, 12420, 12375, 26041, 12398, 30294, 12434, 25972, 12360, 12427>> (* 増やし方の癖を整える *),
         protect |-> <<23433, 24515, 12364, 32154, 12367, 22303, 21488, 12434, 25345, 12388>> (* 安心が続く土台を持つ *),
         cta |-> <<19968, 24230, 12503, 12525, 12392, 35441, 12375, 12390, 12289, 29702, 24819, 12398, 21313, 24180, 24460, 12395, 21521, 12369, 12383, 28310, 20633, 12434, 25972, 12360, 12424, 12358, 12290>> (* 一度プロと話して、理想の十年後に向けた準備を整えよう。 *) ]

STRAINED_WORDS ==
  { <<12462, 12522, 12462, 12522>> (* ギリギリ *), <<20313, 35029, 12364, 12394, 12356>> (* 余裕がない *), <<33510, 12375, 12356>> (* 苦しい *), <<12375, 12435, 12393, 12356>> (* しんどい *), <<21427, 12375, 12356>> (* 厳しい *) }

\* The alternatives of the regular expression DENYLIST_PATTERN.
DENYLIST_PATTERN ==
  { <<12397, 12363, 12394>> (* ねかな *), <<12363, 12394, 12363, 12418>> (* かなかも *), <<12363, 12394, 12387, 12390, 24863, 12376>> (* かなって感じ *), <<12363, 12418, 12363, 12394>> (* かもかな *),
    <<24863, 12376, 12427, 12394, 12435, 12384>> (* 感じるなんだ *), <<12435, 12384, 12387, 12390, 24863, 12376>> (* んだって感じ *), <<12397, 12387, 12390, 24863, 12376>> (* ねって感じ *) }

\* makeSentence
S(text, ending) == [text |-> text, ending |-> ending]

\* One round of hash = (hash * 31 + charCode) | 0 on the 32-bit word
\* h = <<high 16 bits, low 16 bits>>.
HashStep(h, c) ==
  LET lo == h[2] * 31 + c
      hi == h[1] * 31 + (lo \div 65536)
  IN << hi % 65536, lo % 65536 >>

\* Three rounds at once: ((h * 31 + c1) * 31 + c2) * 31 + c3 on the same
\* word (the wrap of | 0 after each round is the wrap after the third).
HashStep3(h, c1, c2, c3) ==
  LET lo == h[2] * 29791 + c1 * 961 + c2 * 31 + c3
      hi == h[1] * 29791 + (lo \div 65536)
  IN << hi % 65536, lo % 65536 >>

\* hash after the first n rounds of the loop over text
RECURSIVE HashRounds(_, _)
HashRounds(text, n) ==
  IF n = 0 THEN << 0, 0 >>
  ELSE IF n % 3 = 0
  THEN HashStep3(HashRounds(text, n - 3), text[n - 2], text[n - 1], text[n])
  ELSE HashStep(HashRounds(text, n - 1), text[n])

\* Math.abs of the signed 32-bit word h, as <<high 16 bits, low 16 bits>> of
\* a number in 0..2^31.
Abs32(h) ==
  IF h[1] < 32768 THEN h
  ELSE << 65535 - h[1] + (IF h[2] = 0 THEN 1 ELSE 0), (65536 - h[2]) % 65536 >>

hashString(text) == Abs32(HashRounds(text, Len(text)))

\* (seed + k) % n for the number seed = <<high, low>> and 0 <= k, 0 < n
SeedMod(seed, k, n) == ((seed[1] % n) * (65536 % n) + (seed[2] % n) + k) % n

pickSituation(in) ==
  IF in.kids_future > 0 THEN "kids"
  ELSE IF in.household_now >= 2 THEN "pair"
  ELSE "single"

goalKeyword(in) ==
  IF in.goal = "other"
  THEN (IF Trim(in.goal_other) # <<>> THEN Trim(in.goal_other) ELSE <<30446, 27161>> (* 目標 *))
  ELSE IF in.goal = "fire" THEN <<70, 73, 82, 69>> (* FIRE *)
  ELSE IF in.goal = "mortgage" THEN <<20303, 23429, 12525, 12540, 12531, 23436, 28168>> (* 住宅ローン完済 *)
  ELSE IF in.goal = "entrepreneur" THEN <<36215, 26989>> (* 起業 *)
  ELSE IF in.goal = "overseas" THEN <<28023, 22806, 31227, 20303>> (* 海外移住 *)
  ELSE <<30446, 27161>> (* 目標 *)

\* The tiers are the strings the scenario key is built from.
computeCashflowTier(projection) ==
  LET tier == projection.life_quality_tier
  IN IF tier <= 2 THEN <<76, 79, 87>> (* LOW *)
     ELSE IF tier = 3 THEN <<77, 73, 68>> (* MID *)
     ELSE <<72, 73, 71, 72>> (* HIGH *)

computeStabilityTier(in, projection) ==
  LET held == in.current_savings_jpy + in.current_invest_jpy
      spend == Max(1, projection.monthly_spending_est_10y)
  IN IF held < 3 * spend THEN <<76, 79, 87>> (* LOW *)
     ELSE IF held < 6 * spend THEN <<77, 73, 68>> (* MID *)
     ELSE <<72, 73, 71, 72>> (* HIGH *)

computeLifeLoadTier(in) ==
  LET score == in.kids_future * 2 + Max(0, in.household_now - 1)
  IN IF score <= 1 THEN <<76, 73, 71, 72, 84>> (* LIGHT *)
     ELSE IF score <= 4 THEN <<77, 73, 68>> (* MID *)
     ELSE <<72, 69, 65, 86, 89>> (* HEAVY *)

getLifeQualityTier(projection) ==
  LET tier == projection.life_quality_tier
  IN IF tier \in 1..5 THEN tier ELSE 3

buildScenarioKey(in, projection) ==
  computeCashflowTier(projection) \o <<45>> (* - *)
    \o computeStabilityTier(in, projection) \o <<45>> (* - *)
    \o computeLifeLoadTier(in) \o <<45, 81>> (* -Q *)
    \o DigitText(getLifeQualityTier(projection))

severityBand(severity) ==
  IF severity <= 1 THEN "calm"
  ELSE IF severity = 2 THEN "caution"
  ELSE "strained"

line2Pool(situation, severity, scenarioKey, qualityTier) ==
  LET band == severityBand(severity)
      kids ==
        IF situation # "kids" THEN <<>> ELSE
        IF band = "calm"
        THEN << S(<<23376, 12393, 12418, 12392, 12398, 26178, 38291, 12364, 22679, 12360, 12390, 12289, 23478, 12398, 12522, 12474, 12512, 12418, 31311, 12420, 12363, 12384, 12397, 12290>> (* 子どもとの時間が増えて、家のリズムも穏やかだね。 *), "ne"),
                S(<<23478, 12398, 20104, 23450, 12399, 21205, 12367, 12369, 12393, 12289, 23478, 26063, 12398, 12506, 12540, 12473, 12399, 20445, 12390, 12390, 12427, 12363, 12394, 12290>> (* 家の予定は動くけど、家族のペースは保ててるかな。 *), "kana"),
                S(<<23376, 12393, 12418, 20013, 24515, 12391, 12418, 12289, 27671, 25345, 12385, 12399, 23569, 12375, 33853, 12385, 30528, 12356, 12390, 12365, 12383, 12363, 12418, 12290>> (* 子ども中心でも、気持ちは少し落ち着いてきたかも。 *), "kamo") >>
        ELSE IF band = "caution"
        THEN << S(<<23376, 12393, 12418, 12398, 20104, 23450, 12395, 25391, 12426, 22238, 12373, 12428, 12420, 12377, 12367, 12390, 12289, 23478, 12364, 12496, 12479, 12388, 12367, 26085, 12418, 12354, 12427, 12397, 12290>> (* 子どもの予定に振り回されやすくて、家がバタつく日もあるね。 *), "ne"),
                S(<<23478, 12398, 12506, 12540, 12473, 12399, 20445, 12387, 12390, 12427, 12369, 12393, 12289, 20313, 35029, 12399, 12414, 12384, 23569, 12394, 12417, 12363, 12394, 12290>> (* 家のペースは保ってるけど、余裕はまだ少なめかな。 *), "kana"),
                S(<<23376, 12393, 12418, 12398, 12371, 12392, 12391, 30130, 12428, 12364, 27531, 12426, 12420, 12377, 12356, 12363, 12418, 12290>> (* 子どものことで疲れが残りやすいかも。 *), "kamo") >>
        ELSE << S(<<23376, 12393, 12418, 12398, 12371, 12392, 12391, 27598, 26085, 12364, 25163, 19968, 26479, 12391, 12289, 23478, 12398, 20313, 35029, 12364, 12411, 12392, 12435, 12393, 12394, 12356, 12397, 12290>> (* 子どものことで毎日が手一杯で、家の余裕がほとんどないね。 *), "ne"),
                S(<<23478, 12398, 20013, 12364, 12496, 12479, 12496, 12479, 12391, 12289, 33853, 12385, 30528, 12367, 26178, 38291, 12364, 21462, 12428, 12394, 12356, 12363, 12394, 12290>> (* 家の中がバタバタで、落ち着く時間が取れないかな。 *), "kana"),
                S(<<23376, 12393, 12418, 12398, 12371, 12392, 12391, 27671, 25345, 12385, 12418, 21066, 12425, 12428, 12364, 12385, 12363, 12418, 12290>> (* 子どものことで気持ちも削られがちかも。 *), "kamo") >>
      pair ==
        IF situation # "pair" THEN <<>> ELSE
        IF band = "calm"
        THEN << S(<<12405, 12383, 12426, 12398, 26286, 12425, 12375, 12364, 23433, 23450, 12375, 12390, 12390, 12289, 26085, 12293, 12398, 12522, 12474, 12512, 12399, 25972, 12387, 12390, 12427, 12397, 12290>> (* ふたりの暮らしが安定してて、日々のリズムは整ってるね。 *), "ne"),
                S(<<12405, 12383, 12426, 12398, 29983, 27963, 12399, 33853, 12385, 30528, 12356, 12390, 12365, 12390, 12289, 27671, 25345, 12385, 12418, 36605, 12356, 12363, 12394, 12290>> (* ふたりの生活は落ち着いてきて、気持ちも軽いかな。 *), "kana"),
                S(<<12405, 12383, 12426, 12398, 26178, 38291, 12399, 20445, 12390, 12390, 12289, 26286, 12425, 12375, 12418, 31311, 12420, 12363, 12363, 12418, 12290>> (* ふたりの時間は保てて、暮らしも穏やかかも。 *), "kamo") >>
        ELSE IF band = "caution"
        THEN << S(<<12405, 12383, 12426, 12398, 26286, 12425, 12375, 12399, 32154, 12356, 12390, 12427, 12369, 12393, 12289, 20313, 35029, 12399, 12414, 12384, 23569, 12394, 12417, 12397, 12290>> (* ふたりの暮らしは続いてるけど、余裕はまだ少なめね。 *), "ne"),
                S(<<12405, 12383, 12426, 12398, 29983, 27963, 12399, 22238, 12387, 12390, 12427, 12369, 12393, 12289, 25972, 12360, 12383, 12356, 25152, 12364, 12354, 12427, 12363, 12394, 12290>> (* ふたりの生活は回ってるけど、整えたい所があるかな。 *), "kana"),
                S(<<12405, 12383, 12426, 12398, 26178, 38291, 12399, 12354, 12427, 12369, 12393, 12289, 27671, 25345, 12385, 12399, 35440, 12414, 12426, 12420, 12377, 12356, 12363, 12418, 12290>> (* ふたりの時間はあるけど、気持ちは詰まりやすいかも。 *), "kamo") >>
        ELSE << S(<<12405, 12383, 12426, 12398, 26286, 12425, 12375, 12399, 32154, 12356, 12390, 12427, 12369, 12393, 12289, 20313, 35029, 12364, 21066, 12425, 12428, 12390, 12427, 12397, 12290>> (* ふたりの暮らしは続いてるけど、余裕が削られてるね。 *), "ne"),
                S(<<12405, 12383, 12426, 12398, 29983, 27963, 12364, 22238, 12387, 12390, 12390, 12418, 12289, 24687, 12364, 35440, 12414, 12426, 12420, 12377, 12356, 12363, 12394, 12290>> (* ふたりの生活が回ってても、息が詰まりやすいかな。 *), "kana"),
                S(<<12405, 12383, 12426, 12398, 26178, 38291, 12399, 12354, 12427, 12369, 12393, 12289, 12375, 12435, 12393, 12356, 26085, 12364, 22679, 12360, 12383, 12363, 12418, 12290>> (* ふたりの時間はあるけど、しんどい日が増えたかも。 *), "kamo") >>
      single ==
        IF situation # "single" THEN <<>> ELSE
        IF band = "calm"
        THEN << S(<<12402, 12392, 12426, 12398, 26286, 12425, 12375, 12364, 25972, 12387, 12390, 12289, 27671, 25345, 12385, 12418, 12422, 12427, 12420, 12363, 12384, 12397, 12290>> (* ひとりの暮らしが整って、気持ちもゆるやかだね。 *), "ne"),
                S(<<12402, 12392, 12426, 12398, 29983, 27963, 12399, 33853, 12385, 30528, 12356, 12390, 12390, 12289, 12506, 12540, 12473, 12418, 21512, 12387, 12390, 12427, 12363, 12394, 12290>> (* ひとりの生活は落ち着いてて、ペースも合ってるかな。 *), "kana"),
                S(<<12402, 12392, 12426, 12398, 26178, 38291, 12399, 23432, 12428, 12390, 12289, 27671, 25345, 12385, 12418, 36605, 12367, 12394, 12387, 12383, 12363, 12418, 12290>> (* ひとりの時間は守れて、気持ちも軽くなったかも。 *), "kamo") >>
        ELSE IF band = "caution"
        THEN << S(<<12402, 12392, 12426, 12398, 26286, 12425, 12375, 12399, 32154, 12356, 12390, 12427, 12369, 12393, 12289, 20313, 35029, 12364, 28187, 12426, 12420, 12377, 12356, 12397, 12290>> (* ひとりの暮らしは続いてるけど、余裕が減りやすいね。 *), "ne"),
                S(<<12402, 12392, 12426, 12398, 29983, 27963, 12399, 22238, 12387, 12390, 12427, 12369, 12393, 12289, 35211, 30452, 12375, 12383, 12356, 25152, 12364, 12354, 12427, 12363, 12394, 12290>> (* ひとりの生活は回ってるけど、見直したい所があるかな。 *), "kana"),
                S(<<12402, 12392, 12426, 12398, 26178, 38291, 12399, 12354, 12427, 12369, 12393, 12289, 30130, 12428, 12364, 27531, 12426, 12420, 12377, 12356, 12363, 12418, 12290>> (* ひとりの時間はあるけど、疲れが残りやすいかも。 *), "kamo") >>
        ELSE << S(<<12402, 12392, 12426, 12398, 26286, 12425, 12375, 12364, 32154, 12356, 12390, 12390, 12418, 12289, 20313, 35029, 12364, 12411, 12392, 12435, 12393, 12394, 12356, 12397, 12290>> (* ひとりの暮らしが続いてても、余裕がほとんどないね。 *), "ne"),
                S(<<12402, 12392, 12426, 12398, 29983, 27963, 12399, 22238, 12387, 12390, 12427, 12369, 12393, 12289, 27671, 25345, 12385, 12364, 37325, 12367, 12394, 12427, 12363, 12394, 12290>> (* ひとりの生活は回ってるけど、気持ちが重くなるかな。 *), "kana"),
                S(<<12402, 12392, 12426, 12398, 26178, 38291, 12399, 12354, 12427, 12369, 12393, 12289, 12375, 12435, 12393, 12373, 12364, 32154, 12367, 12363, 12418, 12290>> (* ひとりの時間はあるけど、しんどさが続くかも。 *), "kamo") >>
      strainedBonus ==
        IF StartsWith(scenarioKey, <<76, 79, 87, 45, 76, 79, 87>> (* LOW-LOW *)) \/ qualityTier <= 2
        THEN << S(<<12420, 12426, 12367, 12426, 12395, 36861, 12431, 12428, 12390, 12289, 33853, 12385, 30528, 12363, 12394, 12356, 26085, 12364, 22679, 12360, 12383, 12435, 12384, 12290>> (* やりくりに追われて、落ち着かない日が増えたんだ。 *), "nanda"),
                S(<<23569, 12375, 12398, 22793, 21270, 12391, 12418, 27671, 25345, 12385, 12364, 25594, 12428, 12420, 12377, 12356, 12392, 24605, 12358, 12290>> (* 少しの変化でも気持ちが揺れやすいと思う。 *), "toOmou") >>
        ELSE <<>>
      calmBonus ==
        IF StartsWith(scenarioKey, <<72, 73, 71, 72, 45, 72, 73, 71, 72>> (* HIGH-HIGH *)) \/ qualityTier >= 4
        THEN << S(<<26085, 12293, 12398, 27969, 12428, 12399, 33853, 12385, 30528, 12356, 12390, 12356, 12390, 12289, 27671, 25345, 12385, 12418, 25972, 12387, 12390, 12427, 12397, 12290>> (* 日々の流れは落ち着いていて、気持ちも整ってるね。 *), "ne"),
                S(<<26286, 12425, 12375, 12399, 23433, 23450, 12375, 12390, 12427, 12375, 12289, 24515, 12398, 20313, 35029, 12418, 20986, 12390, 12365, 12383, 12363, 12394, 12290>> (* 暮らしは安定してるし、心の余裕も出てきたかな。 *), "kana") >>
        ELSE <<>>
  IN kids \o pair \o single \o strainedBonus \o calmBonus

GOAL_SLOT == <<123, 103, 111, 97, 108, 125>> (* {goal} *)

\* The pool line3Pool builds, from the values it computes first.
line3PoolFor(goal, keyword, label, band, scenarioKey, qualityTier) ==
  LET addGoal(text, ending) == S(ReplaceFirst(text, GOAL_SLOT, keyword), ending)
      entrepreneur ==
        IF goal # "entrepreneur" THEN <<>> ELSE
        IF band = "calm"
        THEN << addGoal(<<123, 103, 111, 97, 108, 125, 12398, 28310, 20633, 12364, 36914, 12435, 12391, 12289, 24418, 12364, 35211, 12360, 12390, 12365, 12383, 12397, 12290>> (* {goal}の準備が進んで、形が見えてきたね。 *), "ne"),
                addGoal(<<123, 103, 111, 97, 108, 125, 12399, 21205, 12365, 20986, 12375, 12390, 12390, 12289, 25163, 24540, 12360, 12418, 20986, 12390, 12365, 12383, 12363, 12394, 12290>> (* {goal}は動き出してて、手応えも出てきたかな。 *), "kana"),
                addGoal(<<123, 103, 111, 97, 108, 125, 12398, 36947, 12364, 23569, 12375, 12378, 12388, 22266, 12414, 12387, 12390, 12365, 12383, 12363, 12418, 12290>> (* {goal}の道が少しずつ固まってきたかも。 *), "kamo") >>
        ELSE IF band = "caution"
        THEN << addGoal(<<123, 103, 111, 97, 108, 125, 12399, 24847, 35672, 12391, 12365, 12390, 12427, 12369, 12393, 12289, 25594, 12428, 12427, 26085, 12418, 12354, 12427, 12397, 12290>> (* {goal}は意識できてるけど、揺れる日もあるね。 *), "ne"),
                addGoal(<<123, 103, 111, 97, 108, 125, 12398, 27573, 21462, 12426, 12399, 35211, 12360, 12390, 12365, 12383, 12369, 12393, 12289, 20313, 35029, 12399, 23569, 12394, 12417, 12363, 12394, 12290>> (* {goal}の段取りは見えてきたけど、余裕は少なめかな。 *), "kana"),
                addGoal(<<123, 103, 111, 97, 108, 125, 12395, 21521, 12369, 12390, 21205, 12356, 12390, 12427, 12369, 12393, 12289, 19981, 23433, 12418, 27531, 12427, 12363, 12418, 12290>> (* {goal}に向けて動いてるけど、不安も残るかも。 *), "kamo") >>
        ELSE << addGoal(<<123, 103, 111, 97, 108, 125, 12399, 12414, 12384, 36960, 12367, 12390, 12289, 20313, 35029, 12364, 12394, 12356, 26085, 12418, 22810, 12356, 12397, 12290>> (* {goal}はまだ遠くて、余裕がない日も多いね。 *), "ne"),
                addGoal(<<123, 103, 111, 97, 108, 125, 12395, 21521, 12369, 12390, 36914, 12415, 12383, 12356, 12369, 12393, 12289, 36275, 20803, 12364, 12375, 12435, 12393, 12356, 12363, 12394, 12290>> (* {goal}に向けて進みたいけど、足元がしんどいかな。 *), "kana"),
                addGoal(<<123, 103, 111, 97, 108, 125, 12398, 28310, 20633, 12399, 32154, 12369, 12390, 12427, 12369, 12393, 12289, 21427, 12375, 12356, 26085, 12364, 12354, 12427, 12363, 12418, 12290>> (* {goal}の準備は続けてるけど、厳しい日があるかも。 *), "kamo") >>
      fire ==
        IF goal # "fire" THEN <<>> ELSE
        IF band = "calm"
        THEN << addGoal(<<123, 103, 111, 97, 108, 125, 12398, 28310, 20633, 12364, 36914, 12435, 12391, 12289, 23433, 24515, 24863, 12364, 20986, 12390, 12365, 12383, 12397, 12290>> (* {goal}の準備が進んで、安心感が出てきたね。 *), "ne"),
                addGoal(<<123, 103, 111, 97, 108, 125, 12399, 21205, 12365, 20986, 12375, 12390, 12390, 12289, 25163, 24540, 12360, 12418, 20986, 12390, 12365, 12383, 12363, 12394, 12290>> (* {goal}は動き出してて、手応えも出てきたかな。 *), "kana"),
                addGoal(<<123, 103, 111, 97, 108, 125, 12398, 36947, 12364, 23569, 12375, 12378, 12388, 22266, 12414, 12387, 12390, 12365, 12383, 12363, 12418, 12290>> (* {goal}の道が少しずつ固まってきたかも。 *), "kamo") >>
        ELSE IF band = "caution"
        THEN << addGoal(<<123, 103, 111, 97, 108, 125, 12399, 24847, 35672, 12391, 12365, 12390, 12427, 12369, 12393, 12289, 25594, 12428, 12427, 26085, 12418, 12354, 12427, 12397, 12290>> (* {goal}は意識できてるけど、揺れる日もあるね。 *), "ne"),
                addGoal(<<123, 103, 111, 97, 108, 125, 12398, 27573, 21462, 12426, 12399, 35211, 12360, 12390, 12365, 12383, 12369, 12393, 12289, 20313, 35029, 12399, 23569, 12394, 12417, 12363, 12394, 12290>> (* {goal}の段取りは見えてきたけど、余裕は少なめかな。 *), "kana"),
                addGoal(<<123, 103, 111, 97, 108, 125, 12395, 21521, 12369, 12390, 21205, 12356, 12390, 12427, 12369, 12393, 12289, 19981, 23433, 12418, 27531, 12427, 12363, 12418, 12290>> (* {goal}に向けて動いてるけど、不安も残るかも。 *), "kamo") >>
        ELSE << addGoal(<<123, 103, 111, 97, 108, 125, 12399, 12414, 12384, 36960, 12367, 12390, 12289, 20313, 35029, 12364, 12394, 12356, 26085, 12418, 22810, 12356, 12397, 12290>> (* {goal}はまだ遠くて、余裕がない日も多いね。 *), "ne"),
                addGoal(<<123, 103, 111, 97, 108, 125, 12395, 21521, 12369, 12390, 36914, 12415, 12383, 12356, 12369, 12393, 12289, 36275, 20803, 12364, 12375, 12435, 12393, 12356, 12363, 12394, 12290>> (* {goal}に向けて進みたいけど、足元がしんどいかな。 *), "kana"),
                addGoal(<<123, 103, 111, 97, 108, 125, 12398, 28310, 20633, 12399, 32154, 12369, 12390, 12427, 12369, 12393, 12289, 21427, 12375, 12356, 26085, 12364, 12354, 12427, 12363, 12418, 12290>> (* {goal}の準備は続けてるけど、厳しい日があるかも。 *), "kamo") >>
      mortgage ==
        IF goal # "mortgage" THEN <<>> ELSE
        IF band = "calm"
        THEN << addGoal(<<123, 103, 111, 97, 108, 125, 12364, 35211, 12360, 12390, 12365, 12390, 12289, 27671, 25345, 12385, 12364, 33853, 12385, 30528, 12367, 12397, 12290>> (* {goal}が見えてきて、気持ちが落ち着くね。 *), "ne"),
                addGoal(<<123, 103, 111, 97, 108, 125, 12395, 21521, 12369, 12383, 21205, 12365, 12399, 32154, 12356, 12390, 12390, 12289, 12354, 12392, 23569, 12375, 12363, 12394, 12290>> (* {goal}に向けた動きは続いてて、あと少しかな。 *), "kana"),
                addGoal(<<123, 103, 111, 97, 108, 125, 12398, 36947, 12364, 23569, 12375, 12378, 12388, 22266, 12414, 12387, 12390, 12365, 12383, 12363, 12418, 12290>> (* {goal}の道が少しずつ固まってきたかも。 *), "kamo") >>
        ELSE IF band = "caution"
        THEN << addGoal(<<123, 103, 111, 97, 108, 125, 12399, 24847, 35672, 12391, 12365, 12390, 12427, 12369, 12393, 12289, 25594, 12428, 12427, 26085, 12418, 12354, 12427, 12397, 12290>> (* {goal}は意識できてるけど、揺れる日もあるね。 *), "ne"),
                addGoal(<<123, 103, 111, 97, 108, 125, 12398, 27573, 21462, 12426, 12399, 35211, 12360, 12390, 12365, 12383, 12369, 12393, 12289, 20313, 35029, 12399, 23569, 12394, 12417, 12363, 12394, 12290>> (* {goal}の段取りは見えてきたけど、余裕は少なめかな。 *), "kana"),
                addGoal(<<123, 103, 111, 97, 108, 125, 12395, 21521, 12369, 12390, 21205, 12356, 12390, 12427, 12369, 12393, 12289, 19981, 23433, 12418, 27531, 12427, 12363, 12418, 12290>> (* {goal}に向けて動いてるけど、不安も残るかも。 *), "kamo") >>
        ELSE << addGoal(<<123, 103, 111, 97, 108, 125, 12399, 12414, 12384, 36960, 12367, 12390, 12289, 20313, 35029, 12364, 12394, 12356, 26085, 12418, 22810, 12356, 12397, 12290>> (* {goal}はまだ遠くて、余裕がない日も多いね。 *), "ne"),
                addGoal(<<123, 103, 111, 97, 108, 125, 12395, 21521, 12369, 12390, 36914, 12415, 12383, 12356, 12369, 12393, 12289, 36275, 20803, 12364, 12375, 12435, 12393, 12356, 12363, 12394, 12290>> (* {goal}に向けて進みたいけど、足元がしんどいかな。 *), "kana"),
                addGoal(<<123, 103, 111, 97, 108, 125, 12398, 28310, 20633, 12399, 32154, 12369, 12390, 12427, 12369, 12393, 12289, 21427, 12375, 12356, 26085, 12364, 12354, 12427, 12363, 12418, 12290>> (* {goal}の準備は続けてるけど、厳しい日があるかも。 *), "kamo") >>
      overseas ==
        IF goal # "overseas" THEN <<>> ELSE
        IF band = "calm"
        THEN << addGoal(<<123, 103, 111, 97, 108, 125, 12398, 28310, 20633, 12364, 36914, 12435, 12391, 12289, 35211, 36890, 12375, 12364, 12424, 12367, 12394, 12387, 12383, 12397, 12290>> (* {goal}の準備が進んで、見通しがよくなったね。 *), "ne"),
                addGoal(<<123, 103, 111, 97, 108, 125, 12399, 21205, 12365, 20986, 12375, 12390, 12390, 12289, 12354, 12392, 23569, 12375, 12363, 12394, 12290>> (* {goal}は動き出してて、あと少しかな。 *), "kana"),
                addGoal(<<123, 103, 111, 97, 108, 125, 12398, 36947, 12364, 23569, 12375, 12378, 12388, 22266, 12414, 12387, 12390, 12365, 12383, 12363, 12418, 12290>> (* {goal}の道が少しずつ固まってきたかも。 *), "kamo") >>
        ELSE IF band = "caution"
        THEN << addGoal(<<123, 103, 111, 97, 108, 125, 12399, 24847, 35672, 12391, 12365, 12390, 12427, 12369, 12393, 12289, 25594, 12428, 12427, 26085, 12418, 12354, 12427, 12397, 12290>> (* {goal}は意識できてるけど、揺れる日もあるね。 *), "ne"),
                addGoal(<<123, 103, 111, 97, 108, 125, 12398, 27573, 21462, 12426, 12399, 35211, 12360, 12390, 12365, 12383, 12369, 12393, 12289, 20313, 35029, 12399, 23569, 12394, 12417, 12363, 12394, 12290>> (* {goal}の段取りは見えてきたけど、余裕は少なめかな。 *), "kana"),
                addGoal(<<123, 103, 111, 97, 108, 125, 12395, 21521, 12369, 12390, 21205, 12356, 12390, 12427, 12369, 12393, 12289, 19981, 23433, 12418, 27531, 12427, 12363, 12418, 12290>> (* {goal}に向けて動いてるけど、不安も残るかも。 *), "kamo") >>
        ELSE << addGoal(<<123, 103, 111, 97, 108, 125, 12399, 12414, 12384, 36960, 12367, 12390, 12289, 20313, 35029, 12364, 12394, 12356, 26085, 12418, 22810, 12356, 12397, 12290>> (* {goal}はまだ遠くて、余裕がない日も多いね。 *), "ne"),
                addGoal(<<123, 103, 111, 97, 108, 125, 12395, 21521, 12369, 12390, 36914, 12415, 12383, 12356, 12369, 12393, 12289, 36275, 20803, 12364, 12375, 12435, 12393, 12356, 12363, 12394, 12290>> (* {goal}に向けて進みたいけど、足元がしんどいかな。 *), "kana"),
                addGoal(<<123, 103, 111, 97, 108, 125, 12398, 28310, 20633, 12399, 32154, 12369, 12390, 12427, 12369, 12393, 12289, 21427, 12375, 12356, 26085, 12364, 12354, 12427, 12363, 12418, 12290>> (* {goal}の準備は続けてるけど、厳しい日があるかも。 *), "kamo") >>
      other ==
        IF goal # "other" THEN <<>> ELSE
        IF band = "calm"
        THEN << S(label \o <<12395, 21521, 12369, 12390, 21205, 12365, 12364, 20986, 12390, 12365, 12390, 12289, 25163, 24540, 12360, 12418, 12354, 12427, 12397, 12290>> (* に向けて動きが出てきて、手応えもあるね。 *), "ne"),
                S(label \o <<12399, 21205, 12365, 20986, 12375, 12390, 12390, 12289, 12354, 12392, 23569, 12375, 12363, 12394, 12290>> (* は動き出してて、あと少しかな。 *), "kana"),
                S(label \o <<12398, 36947, 12364, 23569, 12375, 12378, 12388, 22266, 12414, 12387, 12390, 12365, 12383, 12363, 12418, 12290>> (* の道が少しずつ固まってきたかも。 *), "kamo") >>
        ELSE IF band = "caution"
        THEN << S(label \o <<12399, 24847, 35672, 12391, 12365, 12390, 12427, 12369, 12393, 12289, 25594, 12428, 12427, 26085, 12418, 12354, 12427, 12397, 12290>> (* は意識できてるけど、揺れる日もあるね。 *), "ne"),
                S(label \o <<12398, 27573, 21462, 12426, 12399, 35211, 12360, 12390, 12365, 12383, 12369, 12393, 12289, 20313, 35029, 12399, 23569, 12394, 12417, 12363, 12394, 12290>> (* の段取りは見えてきたけど、余裕は少なめかな。 *), "kana"),
                S(label \o <<12395, 21521, 12369, 12390, 21205, 12356, 12390, 12427, 12369, 12393, 12289, 19981, 23433, 12418, 27531, 12427, 12363, 12418, 12290>> (* に向けて動いてるけど、不安も残るかも。 *), "kamo") >>
        ELSE << S(label \o <<12399, 12414, 12384, 36960, 12367, 12390, 12289, 20313, 35029, 12364, 12394, 12356, 26085, 12418, 22810, 12356, 12397, 12290>> (* はまだ遠くて、余裕がない日も多いね。 *), "ne"),
                S(label \o <<12395, 21521, 12369, 12390, 36914, 12415, 12383, 12356, 12369, 12393, 12289, 36275, 20803, 12364, 12375, 12435, 12393, 12356, 12363, 12394, 12290>> (* に向けて進みたいけど、足元がしんどいかな。 *), "kana"),
                S(label \o <<12398, 28310, 20633, 12399, 32154, 12369, 12390, 12427, 12369, 12393, 12289, 21427, 12375, 12356, 26085, 12364, 12354, 12427, 12363, 12418, 12290>> (* の準備は続けてるけど、厳しい日があるかも。 *), "kamo") >>
      strainedBonus ==
        IF StartsWith(scenarioKey, <<76, 79, 87, 45, 76, 79, 87>> (* LOW-LOW *)) \/ qualityTier <= 2
        THEN << S(label \o <<12395, 12399, 21521, 12363, 12387, 12390, 12427, 12369, 12393, 12289, 20313, 35029, 12398, 12394, 12373, 12364, 24341, 12387, 12363, 12363, 12427, 12435, 12384, 12290>> (* には向かってるけど、余裕のなさが引っかかるんだ。 *), "nanda"),
                S(label \o <<12408, 12398, 21205, 12365, 12399, 12354, 12427, 12369, 12393, 12289, 36275, 20803, 12364, 19981, 23433, 12384, 12392, 24605, 12358, 12290>> (* への動きはあるけど、足元が不安だと思う。 *), "toOmou") >>
        ELSE <<>>
      calmBonus ==
        IF qualityTier >= 4
        THEN << S(label \o <<12398, 36914, 12417, 26041, 12399, 33853, 12385, 30528, 12356, 12390, 12365, 12390, 12289, 36984, 12403, 26041, 12418, 36855, 12356, 12395, 12367, 12356, 12397, 12290>> (* の進め方は落ち着いてきて、選び方も迷いにくいね。 *), "ne"),
                S(label \o <<12399, 35211, 12360, 12390, 12365, 12390, 12427, 12375, 12289, 32154, 12369, 26041, 12418, 25972, 12387, 12390, 12365, 12383, 12363, 12394, 12290>> (* は見えてきてるし、続け方も整ってきたかな。 *), "kana") >>
        ELSE <<>>
  IN entrepreneur \o fire \o mortgage \o overseas \o other
       \o strainedBonus \o calmBonus

line3Label(goal, keyword, intent) ==
  IF goal = "other"
  THEN (IF intent # <<>> THEN <<12300>> (* 「 *) \o intent[1].keyword \o <<12301>> (* 」 *)
        ELSE <<30446, 27161>> (* 目標 *))
  ELSE keyword

line3Pool(in, severity, scenarioKey, qualityTier, intent) ==
  line3PoolFor(in.goal, goalKeyword(in),
               line3Label(in.goal, goalKeyword(in), intent),
               severityBand(severity), scenarioKey, qualityTier)

NoEnding == "none"

\* The least i in 0..(n - 1) with Ok(i), or -1: the first round of a
\* for loop that returns.
FirstRound(n, Ok(_)) ==
  IF \E i \in 0..(n - 1) : Ok(i)
  THEN CHOOSE i \in 0..(n - 1) : Ok(i) /\ \A j \in 0..(i - 1) : ~Ok(j)
  ELSE -1

pickSentence(pool, seed, offset, avoidEnding) ==
  IF Len(pool) = 0 THEN S(<<>>, "ne")
  ELSE LET n == Len(pool)
           candidate(i) == pool[SeedMod(seed, offset + i, n) + 1]
           Ok(i) == ~(avoidEnding # NoEnding /\ candidate(i).ending = avoidEnding)
           first == FirstRound(n, Ok)
       IN IF first >= 0 THEN candidate(first)
          ELSE pool[SeedMod(seed, offset, n) + 1]

pickLine2Line3(line2PoolData, line3PoolData, seed, severity) ==
  LET line2 == pickSentence(line2PoolData, seed, 0, NoEnding)
      n == Len(line3PoolData)
      candidate(i) == line3PoolData[SeedMod(seed, 3 + i, n) + 1]
      Ok(i) == /\ candidate(i).ending # line2.ending
               /\ ~IncludesAny(line2.text \o candidate(i).text, DENYLIST_PATTERN)
      first == FirstRound(n, Ok)
  IN IF first >= 0
     THEN [line2 |-> line2, line3 |-> candidate(first)]
     ELSE [line2 |-> line2,
           line3 |-> pickSentence(line3PoolData, seed, 7, line2.ending)]

ensureStrainedWord_KeepLine3(line2, line3, pool) == line3

ensureStrainedWord(line2, line3, pool) ==
  LET combined == line2.text \o line3.text
      Fits(i) == /\ \E word \in STRAINED_WORDS : Includes(pool[i + 1].text, word)
                 /\ pool[i + 1].ending # line2.ending
      first == FirstRound(Len(pool), Fits)
  IN IF \E word \in STRAINED_WORDS : Includes(combined, word) THEN line3
     ELSE IF first >= 0 THEN pool[first + 1]
     ELSE line3

buildLine4(severity, variantIx) ==
  LET variants == IF severity \in 0..4 THEN LINE4_BY_SEVERITY[severity + 1]
                  ELSE LINE4_BY_SEVERITY[2]
  IN variants[(variantIx % Len(variants)) + 1]

\* The characters of the class [0-9０-９%％円月]
IsStrippedChar(c) ==
  \/ (c >= 48 /\ c <= 57)
  \/ (c >= 65296 /\ c <= 65305)
  \/ c \in {37, 65285, 20870, 26376}

\* raw.replace(/[0-9０-９%％円月]/g, "")
StripChars(text) == SelectSeq(text, LAMBDA c : ~IsStrippedChar(c))

sanitizeKeyword(raw) ==
  LET cleaned == Trim(StripChars(raw))
  IN IF cleaned = <<>> THEN <<30446, 27161>> (* 目標 *)
     ELSE Slice(cleaned, 1, Min(18, Len(cleaned)))

\* inferOtherGoalIntent from raw = sanitizeKeyword(goalOther)
intentOf(raw) ==
  LET text == ToLowerCase(raw)
      keyword == IF raw # <<>> THEN raw ELSE <<30446, 27161>> (* 目標 *)
  IN IF IncludesAny(raw, { <<26053, 34892>> (* 旅行 *), <<19990, 30028, 19968, 21608>> (* 世界一周 *), <<19990, 30028, 26053, 34892>> (* 世界旅行 *), <<28023, 22806>> (* 海外 *),
                           <<98, 97, 99, 107, 112, 97, 99, 107>> (* backpack *) })
     THEN [keyword |-> keyword, category |-> "travel", difficulty |-> 2]
     ELSE IF IncludesAny(raw, { <<36215, 26989>> (* 起業 *), <<29420, 31435>> (* 独立 *), <<21103, 26989>> (* 副業 *), <<36578, 32887>> (* 転職 *),
                                <<12501, 12522, 12540, 12521, 12531, 12473>> (* フリーランス *) })
     THEN [keyword |-> keyword, category |-> "career", difficulty |-> 2]
     ELSE IF IncludesAny(raw, { <<23478>> (* 家 *), <<12510, 12452, 12507, 12540, 12512>> (* マイホーム *), <<24341, 12387, 36234, 12375>> (* 引っ越し *), <<24341, 36234, 12375>> (* 引越し *) })
     THEN [keyword |-> keyword, category |-> "home", difficulty |-> 2]
     ELSE IF IncludesAny(raw, { <<31563, 12488, 12524>> (* 筋トレ *), <<12480, 12452, 12456, 12483, 12488>> (* ダイエット *), <<20581, 24247>> (* 健康 *) })
     THEN [keyword |-> keyword, category |-> "health", difficulty |-> 1]
     ELSE IF IncludesAny(raw, { <<36039, 26684>> (* 資格 *), <<21193, 24375>> (* 勉強 *), <<35486, 23398>> (* 語学 *), <<12473, 12461, 12523>> (* スキル *),
                                <<23398, 12403>> (* 学び *) })
     THEN [keyword |-> keyword, category |-> "skill", difficulty |-> 1]
     \* the /i flag: the alternatives are matched in lower case too
     ELSE IF IncludesAny(text, { <<23431, 23449>> (* 宇宙 *), <<28779, 26143>> (* 火星 *), <<12525, 12465, 12483, 12488>> (* ロケット *), <<20740>> (* 億 *),
                                 <<102, 49>> (* f1 *) })
     THEN [keyword |-> keyword, category |-> "dream", difficulty |-> 3]
     ELSE [keyword |-> keyword, category |-> "other", difficulty |-> 2]

inferOtherGoalIntent(goalOther) == intentOf(sanitizeKeyword(goalOther))

ensureLine2Prefix(text) ==
  <<12362, 20803, 27671, 12391, 12377, 12363, 65311, 12371, 12387, 12385, 12399>> (* お元気ですか？こっちは *)
    \o TrimStart(
         ReplacePrefix(
           ReplacePrefix(
             ReplacePrefix(
               TrimStart(ReplacePrefix(Trim(text), <<12362, 20803, 27671, 12391, 12377, 12363, 65311>> (* お元気ですか？ *), <<>>)),
               <<12371, 12387, 12385, 12399, 12289>> (* こっちは、 *), <<12371, 12387, 12385, 12399>> (* こっちは *)),
             <<12289>> (* 、 *), <<>>),
           <<12371, 12387, 12385, 12399>> (* こっちは *), <<>>))

\* The variant with the income among the fields of its seed.
pickTemplateVariant_UsesIncome(in) ==
  LET seed == in.age * 31 + in.household_now * 7 + in.kids_future * 13
                + GOAL_CODE(in.goal) * 17 + in.annual_income_jpy
  IN seed % 3

pickTemplateVariant(in) ==
  LET seed == in.age * 31 + in.household_now * 7 + in.kids_future * 13
                + GOAL_CODE(in.goal) * 17
  IN seed % 3

\* The severity the engine uses: the override or computeGapSeverity, raised
\* by the inferred difficulty when goal = other.
templateSeverity(in, projection, override) ==
  LET severityBase == IF override # NoOverride THEN override[1]
                      ELSE computeGapSeverity(in, projection)
  IN IF in.goal = "other"
     THEN Min(4, severityBase + (inferOtherGoalIntent(in.goal_other).difficulty - 1))
     ELSE severityBase

LINE1 == <<21313, 24180, 21069, 12398, 12461, 12511, 12408, 12290>> (* 十年前のキミへ。 *)

LINE7 == <<21313, 24180, 24460, 12398, 12461, 12511, 12424, 12426, 12290>> (* 十年後のキミより。 *)

\* The sentences buildTemplateLetterVariant emits as line 2 and line 3:
\* the picked pair, with line 3 through ensureStrainedWord at severity >= 3.
emittedSentences(picked, line3PoolData, severity) ==
  [ line2 |-> picked.line2,
    line3 |-> IF severity >= 3
              THEN ensureStrainedWord(picked.line2, picked.line3, line3PoolData)
              ELSE picked.line3 ]

\* The seven entries buildTemplateLetterVariant joins with "\n", from the
\* picked sentences on ...
templateLinesOf(picked, line3PoolData, severity, variantIx) ==
  << LINE1,
     ensureLine2Prefix(picked.line2.text),
     emittedSentences(picked, line3PoolData, severity).line3.text,
     buildLine4(severity, variantIx),
     REQUIRED_HOOK_SENTENCE,
     REQUIRED_METHODS_SENTENCE,
     LINE7 >>

\* ... from the two pools and the seed on ...
templateLinesFrom(line2PoolData, line3PoolData, seed, severity, variantIx) ==
  templateLinesOf(pickLine2Line3(line2PoolData, line3PoolData, seed, severity),
                  line3PoolData, severity, variantIx)

\* ... and from scenarioKey, severity and qualityTier on.
templateLinesAt(in, variantIx, scenarioKey, severity, qualityTier) ==
  templateLinesFrom(
    line2Pool(pickSituation(in), severity, scenarioKey, qualityTier),
    line3Pool(in, severity, scenarioKey, qualityTier,
              IF in.goal = "other"
              THEN << inferOtherGoalIntent(in.goal_other) >> ELSE <<>>),
    hashString(scenarioKey \o <<58>> (* : *) \o GoalText(in.goal) \o <<58>> (* : *)
                 \o DigitText(variantIx) \o <<58>> (* : *) \o DigitText(severity)),
    severity, variantIx)

templateLines(in, variantIx, projection, override) ==
  templateLinesAt(in, variantIx, buildScenarioKey(in, projection),
                  templateSeverity(in, projection, override),
                  getLifeQualityTier(projection))

\* line2 and line3 of buildTemplateLetterVariant after line 1048, from the
\* two pools and the seed on ...
emittedFrom(line2PoolData, line3PoolData, seed, severity) ==
  emittedSentences(pickLine2Line3(line2PoolData, line3PoolData, seed, severity),
                   line3PoolData, severity)

\* ... from scenarioKey, severity and qualityTier on ...
emittedAt(in, variantIx, scenarioKey, severity, qualityTier) ==
  emittedFrom(
    line2Pool(pickSituation(in), severity, scenarioKey, qualityTier),
    line3Pool(in, severity, scenarioKey, qualityTier,
              IF in.goal = "other"
              THEN << inferOtherGoalIntent(in.goal_other) >> ELSE <<>>),
    hashString(scenarioKey \o <<58>> (* : *) \o GoalText(in.goal) \o <<58>> (* : *)
                 \o DigitText(variantIx) \o <<58>> (* : *) \o DigitText(severity)),
    severity)

\* ... and for the arguments of buildTemplateLetterVariant.
emitted(in, variantIx, projection, override) ==
  emittedAt(in, variantIx, buildScenarioKey(in, projection),
            templateSeverity(in, projection, override),
            getLifeQualityTier(projection))

buildTemplateLetterVariant(in, variantIx, projection, override) ==
  JoinLines(templateLines(in, variantIx, projection, override))

buildTemplateLetter(in, projection, override) ==
  buildTemplateLetterVariant(in, pickTemplateVariant(in), projection, override)

buildTemplateContent(in, projection, override) ==
  LET plan == PLAN_BY_GOAL(in.goal)
  IN [ letter |-> buildTemplateLetter(in, projection, override),
       plan_save |-> plan.save,
       plan_grow |-> plan.grow,
       plan_protect |-> plan.protect,
       cta |-> plan.cta,
       summary |-> <<>>,
       disclaimer |-> <<>> ]

----------------------------------------------------------------------------
(* Validation: parseLetterInput, appended to src/lib/openai.ts (116-251).  *)
(* A JSON value is a record tagged with its JavaScript type; a number      *)
(* that is not an integer is v + 1/2 with whole = FALSE.                   *)

Num(n) == [t |-> "number", v |-> n, whole |-> TRUE]

Frac(n) == [t |-> "number", v |-> n, whole |-> FALSE]

Str(text) == [t |-> "string", v |-> text, whole |-> FALSE]

Undefined == [t |-> "undefined", v |-> 0, whole |-> FALSE]

FIELD_SPECS ==
  << [key |-> "age", min |-> 18, max |-> 80],
     [key |-> "household_now", min |-> 1, max |-> 6],
     [key |-> "kids_future", min |-> 0, max |-> 4],
     [key |-> "annual_income_jpy", min |-> 0, max |-> 50000000],
     [key |-> "monthly_savings_jpy", min |-> 0, max |-> 2000000],
     [key |-> "current_savings_jpy", min |-> 0, max |-> 200000000],
     [key |-> "monthly_invest_jpy", min |-> 0, max |-> 2000000],
     [key |-> "current_invest_jpy", min |-> 0, max |-> 200000000] >>

IsDigit(c) == c >= 48 /\ c <= 57

RECURSIVE DigitsValue(_, _)
DigitsValue(text, acc) ==
  IF text = <<>> THEN acc
  ELSE DigitsValue(Tail(text), acc * 10 + (Head(text) - 48))

\* Number(value) for a string, where it is an integer: an optional sign and
\* at most nine decimal digits between white space, the empty string being
\* 0; <<>> for every other string this model draws (none of them spells a
\* number in another notation).
StringToInteger(text) ==
  LET body == Trim(text)
      signed == body # <<>> /\ Head(body) \in {43, 45}
      digits == IF signed THEN Tail(body) ELSE body
  IN IF body = <<>> THEN << 0 >>
     ELSE IF digits # <<>> /\ Len(digits) <= 9
             /\ \A i \in 1..Len(digits) : IsDigit(digits[i])
     THEN << (IF signed /\ Head(body) = 45 THEN -1 ELSE 1) * DigitsValue(digits, 0) >>
     ELSE <<>>

\* parseInteger without the test value.trim() !== "": Number("") is 0.
parseInteger_BlankIsZero(value) ==
  IF value.t = "number" /\ value.whole THEN << value.v >>
  ELSE IF value.t = "string" THEN StringToInteger(value.v)
  ELSE <<>>

\* <<n>> for the integer n, <<>> for null
parseInteger(value) ==
  IF value.t = "number" /\ value.whole THEN << value.v >>
  ELSE IF value.t = "string" /\ Trim(value.v) # <<>> THEN StringToInteger(value.v)
  ELSE <<>>

Rejection(code, field) ==
  [ok |-> FALSE, code |-> code, status |-> 400, field |-> field]

\* The index of the first field parseLetterInput rejects, 0 when none.
FirstBadField(record) ==
  LET Bad(i) == LET value == parseInteger(record[FIELD_SPECS[i + 1].key])
                IN \/ value = <<>>
                   \/ value[1] < FIELD_SPECS[i + 1].min
                   \/ value[1] > FIELD_SPECS[i + 1].max
  IN FirstRound(Len(FIELD_SPECS), Bad) + 1

GoalOf(goal) ==
  IF goal.t # "string" THEN "invalid"
  ELSE IF goal.v = <<101, 110, 116, 114, 101, 112, 114, 101, 110, 101, 117, 114>> (* entrepreneur *) THEN "entrepreneur"
  ELSE IF goal.v = <<102, 105, 114, 101>> (* fire *) THEN "fire"
  ELSE IF goal.v = <<109, 111, 114, 116, 103, 97, 103, 101>> (* mortgage *) THEN "mortgage"
  ELSE IF goal.v = <<111, 118, 101, 114, 115, 101, 97, 115>> (* overseas *) THEN "overseas"
  ELSE IF goal.v = <<111, 116, 104, 101, 114>> (* other *) THEN "other"
  ELSE "invalid"

parseLetterInput(payload) ==
  IF payload.t # "object" THEN Rejection("invalid_body", "")
  ELSE
    LET record == payload
        bad == FirstBadField(record)
        goal == GoalOf(record.goal)
        raw == record.goal_other
        trimmed == Trim(raw.v)
        int(key) == parseInteger(record[key])[1]
    IN IF bad > 0
       THEN (IF parseInteger(record[FIELD_SPECS[bad].key]) = <<>>
             THEN Rejection("invalid_type", FIELD_SPECS[bad].key)
             ELSE Rejection("out_of_range", FIELD_SPECS[bad].key))
       ELSE IF goal = "invalid" THEN Rejection("invalid_goal", "goal")
       ELSE IF goal = "other" /\ (raw.t # "string" \/ Len(Trim(raw.v)) = 0)
       THEN Rejection("invalid_goal_other", "goal_other")
       ELSE IF goal = "other" /\ Len(trimmed) > 40
       THEN Rejection("invalid_goal_other", "goal_other")
       ELSE [ ok |-> TRUE,
              data |->
                [ age |-> int("age"),
                  household_now |-> int("household_now"),
                  kids_future |-> int("kids_future"),
                  annual_income_jpy |-> int("annual_income_jpy"),
                  monthly_savings_jpy |-> int("monthly_savings_jpy"),
                  current_savings_jpy |-> int("current_savings_jpy"),
                  monthly_invest_jpy |-> int("monthly_invest_jpy"),
                  current_invest_jpy |-> int("current_invest_jpy"),
                  goal |-> goal,
                  \* absent (undefined) is <<>>, which input.goal_other ?? ""
                  \* reads as the empty string
                  goal_other |-> IF goal = "other" THEN trimmed ELSE <<>> ] ]

----------------------------------------------------------------------------
(* The inputs of the projection runs: valid LetterInput records whose     *)
(* money fields cover zero, one yen, the tests' values and each maximum.  *)

HouseholdValues == {1, 2, 6}

KidsValues == {0, 1, 4}

\* 4198800 and 4438800 are 12 * 349900 and 12 * (349900 + 20000): a
\* household of two with no plan at the edges of life-quality tiers 2 and 3.
IncomeValues ==
  {0, 1000000, 2400000, 4198800, 4438800, 4500000, 12000000, 50000000}

MonthlySavingsValues == {0, 1, 20000, 50000, 2000000}

MonthlyInvestValues == {0, 1, 30000, 2000000}

CurrentSavingsValues == {0, 2000000, 200000000}

CurrentInvestValues == {0, 1, 500000, 200000000}

ProjectionInputs ==
  [ age : {32},
    household_now : HouseholdValues,
    kids_future : KidsValues,
    annual_income_jpy : IncomeValues,
    monthly_savings_jpy : MonthlySavingsValues,
    current_savings_jpy : CurrentSavingsValues,
    monthly_invest_jpy : MonthlyInvestValues,
    current_invest_jpy : CurrentInvestValues,
    goal : {"mortgage"},
    goal_other : {<<>>} ]

\* The server variables of a run that only calls the pure engines.
EmptyMap == [k \in {} |-> <<>>]

NoResponse ==
  [ id |-> 0, status |-> 0, ok |-> FALSE, code |-> "none", origin |-> "none",
    input |-> <<>>, projections |-> <<>>, content |-> <<>>,
    baseLetter |-> <<>>, retryAfter |-> 0 ]

ServerIdle ==
  /\ now = 0
  /\ buckets = EmptyMap
  /\ polishCache = EmptyMap
  /\ apiKey = <<>>
  /\ sdk = "responses"
  /\ pending = {}
  /\ response = NoResponse
  /\ started = 0
  /\ calls = <<>>

InitProjection ==
  /\ input \in ProjectionInputs
  /\ projections = <<>>
  /\ variant = 0
  /\ severityOverride = NoOverride
  /\ letter = <<>>
  /\ op = "none"
  /\ parsePayload = <<>>
  /\ parseResult = <<>>
  /\ sevenLines = <<>>
  /\ ServerIdle

ComputeProjections ==
  /\ projections = <<>>
  /\ projections' = computeProjections(input)
  /\ UNCHANGED <<input, variant, severityOverride, letter, op>>
  /\ UNCHANGED <<parsePayload, parseResult, sevenLines>>
  /\ UNCHANGED serverVars

NextProjection == ComputeProjections

SpecProjection == InitProjection /\ [][NextProjection]_vars

\* The record computeProjections returned, once it has.
Projected == projections # <<>>

\* C6: for every valid input computeProjections returns exactly one record,
\* whose years field is 10, with invest_min <= invest_max and
\* total_min <= total_max.
C6_OneTenYearRecord ==
  Projected =>
    /\ Len(projections) = 1
    /\ projections[1].years = 10
    /\ projections[1].invest_min <= projections[1].invest_max
    /\ projections[1].total_min <= projections[1].total_max

\* A projection of an input with investments, whose range is a proper one.
C6_Witness ==
  /\ Projected
  /\ input.current_invest_jpy > 0
  /\ projections[1].invest_min < projections[1].invest_max
  /\ projections[1].total_min < projections[1].total_max

MoneyFields ==
  { "savings_future", "invest_min", "invest_max", "total_min", "total_max",
    "monthly_spending_est_now", "monthly_spending_est_future",
    "monthly_spending_est_10y", "monthly_surplus_est_low",
    "monthly_surplus_est_high", "used_monthly_savings", "used_monthly_invest",
    "used_monthly_total", "used_monthly_total_low", "used_monthly_total_high" }

\* C7: for every valid input every monetary field of the projection and
\* both runway_months_min and runway_months_max are non-negative.
C7_NonNegative ==
  Projected =>
    /\ \A field \in MoneyFields : projections[1][field] >= 0
    /\ projections[1].runway_months_min >= 0
    /\ projections[1].runway_months_max >= 0

\* A projection of an income below the estimated spending, where the
\* surplus is floored at zero.
C7_Witness ==
  /\ Projected
  /\ input.annual_income_jpy > 0
  /\ 17 * input.annual_income_jpy
       < 240 * projections[1].monthly_spending_est_10y
  /\ projections[1].monthly_surplus_est_high = 0

\* The stated monthly contribution of the input.
StatedMonthlyTotal == input.monthly_savings_jpy + input.monthly_invest_jpy

\* C8: used_monthly_total_low and used_monthly_total_high are the smaller
\* of the stated contribution and the low and high surplus, so neither
\* exceeds its surplus and low <= high; when the high surplus is 0 both are
\* 0 and goal_gap_label is "まだ遠い".
C8_ContributionCapped ==
  Projected =>
    LET p == projections[1]
    IN /\ p.used_monthly_total_low
            = IF StatedMonthlyTotal <= p.monthly_surplus_est_low
              THEN StatedMonthlyTotal ELSE p.monthly_surplus_est_low
       /\ p.used_monthly_total_high
            = IF StatedMonthlyTotal <= p.monthly_surplus_est_high
              THEN StatedMonthlyTotal ELSE p.monthly_surplus_est_high
       /\ p.used_monthly_total_low <= p.monthly_surplus_est_low
       /\ p.used_monthly_total_high <= p.monthly_surplus_est_high
       /\ p.used_monthly_total_low <= p.used_monthly_total_high
       /\ p.monthly_surplus_est_high = 0 =>
            /\ p.used_monthly_total_low = 0
            /\ p.used_monthly_total_high = 0
            /\ p.goal_gap_label = LABEL_FAR

\* A contribution above the low surplus and below the high one: capped at
\* the low end only.
C8_Witness ==
  /\ Projected
  /\ projections[1].monthly_surplus_est_low > 0
  /\ StatedMonthlyTotal > projections[1].monthly_surplus_est_low
  /\ StatedMonthlyTotal < projections[1].monthly_surplus_est_high
  /\ projections[1].used_monthly_total_low
       < projections[1].used_monthly_total_high

\* C9: goal_gap_label is "まだ遠い" if used_monthly_total_high = 0 or
\* runway_months_max < 6, otherwise "もう少し" if runway_months_max < 12,
\* otherwise "達成できてる": exactly one of the three labels.
C9_GoalGapLabel ==
  Projected =>
    LET p == projections[1]
        far == p.used_monthly_total_high = 0 \/ p.runway_months_max < 6
    IN /\ p.goal_gap_label \in {LABEL_FAR, LABEL_ALMOST, LABEL_ACHIEVED}
       /\ (p.goal_gap_label = LABEL_FAR) <=> far
       /\ (p.goal_gap_label = LABEL_ALMOST)
            <=> (~far /\ p.runway_months_max < 12)
       /\ (p.goal_gap_label = LABEL_ACHIEVED)
            <=> (~far /\ p.runway_months_max >= 12)

\* A long runway with no usable contribution: far all the same.
C9_Witness ==
  /\ Projected
  /\ projections[1].used_monthly_total_high = 0
  /\ projections[1].runway_months_max >= 12
  /\ projections[1].goal_gap_label = LABEL_FAR

\* C10: savings_future = current_savings_jpy + monthly_savings_jpy * 12 * 10,
\* from the stated monthly savings, with no growth rate and regardless of
\* income or the surplus cap.
C10_SavingsFuture ==
  Projected =>
    projections[1].savings_future
      = input.current_savings_jpy + input.monthly_savings_jpy * 12 * 10

\* Savings of 2,000,000 and 20,000 a month, with the contribution capped
\* below what is stated: 4,400,000 all the same.
C10_Witness ==
  /\ Projected
  /\ input.current_savings_jpy = 2000000
  /\ input.monthly_savings_jpy = 20000
  /\ projections[1].used_monthly_savings < input.monthly_savings_jpy
  /\ projections[1].savings_future = 4400000

\* Twelve times the residual of the input: annual_income_jpy / 12, less
\* the baseline of its household, less the stated monthly contribution.
Residual12(in) ==
  in.annual_income_jpy
    - 12 * ((IF in.household_now = 1 THEN 197900 ELSE 349900)
              + in.monthly_savings_jpy + in.monthly_invest_jpy)

\* C25: life_quality_tier is decided by residual = annual_income_jpy / 12
\* - baseline - (monthly_savings_jpy + monthly_invest_jpy), the baseline
\* being 197,900 for household_now = 1 and 349,900 otherwise: tier 1 if
\* residual < 0, 2 if < 20,000, 3 if < 60,000, 4 if < 120,000, else 5; and
\* the tier never decreases when the income rises, all else fixed.
C25_LifeQualityTier ==
  Projected =>
    /\ projections[1].life_quality_tier
         = IF Residual12(input) < 0 THEN 1
           ELSE IF Residual12(input) < 12 * 20000 THEN 2
           ELSE IF Residual12(input) < 12 * 60000 THEN 3
           ELSE IF Residual12(input) < 12 * 120000 THEN 4
           ELSE 5
    /\ \A income \in IncomeValues :
         income >= input.annual_income_jpy =>
           computeLifeQualityTier([input EXCEPT !.annual_income_jpy = income])
             >= projections[1].life_quality_tier

\* A household of two without a plan whose residual is exactly 20,000:
\* tier 3, the edge belonging to the upper tier.
C25_Witness ==
  /\ Projected
  /\ input.household_now = 2
  /\ Residual12(input) = 12 * 20000
  /\ projections[1].life_quality_tier = 3

\* The input with the three fields the investment range does not read set
\* to fixed values.
investOnly(in) ==
  [in EXCEPT !.annual_income_jpy = 0, !.household_now = 1, !.kids_future = 0]

\* C26: invest_min and invest_max are the 10-year future values, at 2% and
\* 6% a year, of current_invest_jpy with the stated monthly_invest_jpy, not
\* the capped used_monthly_invest; inputs that differ only in
\* annual_income_jpy, household_now or kids_future have the same invest_min,
\* invest_max and savings_future; and invest_max > invest_min whenever
\* current_invest_jpy or monthly_invest_jpy is positive.
C26_InvestRangeFromStated ==
  Projected =>
    /\ projections[1].invest_min
         = computeInvestFuture(input.current_invest_jpy,
                               input.monthly_invest_jpy, 10, 2)
    /\ projections[1].invest_max
         = computeInvestFuture(input.current_invest_jpy,
                               input.monthly_invest_jpy, 10, 6)
    /\ projections[1].invest_min
         = computeProjections(investOnly(input))[1].invest_min
    /\ projections[1].invest_max
         = computeProjections(investOnly(input))[1].invest_max
    /\ projections[1].savings_future
         = computeProjections(investOnly(input))[1].savings_future
    /\ (input.current_invest_jpy > 0 \/ input.monthly_invest_jpy > 0)
         => projections[1].invest_max > projections[1].invest_min

\* A stated monthly investment that the surplus caps to nothing, and the
\* range grows from the stated amount all the same.
C26_Witness ==
  /\ Projected
  /\ input.monthly_invest_jpy = 30000
  /\ input.current_invest_jpy = 0
  /\ projections[1].used_monthly_invest = 0
  /\ projections[1].invest_min > 30000 * 120
  /\ projections[1].invest_max > projections[1].invest_min

\* C28: used_monthly_total, the sum of the separately rounded
\* used_monthly_savings and used_monthly_invest, equals
\* used_monthly_total_low, and so never exceeds monthly_surplus_est_low or
\* the stated monthly contribution.
C28_UsedTotalIsLow ==
  Projected =>
    /\ projections[1].used_monthly_total
         = projections[1].used_monthly_savings
             + projections[1].used_monthly_invest
    /\ projections[1].used_monthly_total
         = projections[1].used_monthly_total_low
    /\ projections[1].used_monthly_total
         <= projections[1].monthly_surplus_est_low
    /\ projections[1].used_monthly_total <= StatedMonthlyTotal

----------------------------------------------------------------------------
(* The inputs of the template letter runs: request payloads over six       *)
(* households (one per life-quality tier and situation), the five goals     *)
(* and goal_other texts of each kind the engine distinguishes.              *)

Profiles ==
  { << 32, 2, 1, 4500000, 20000, 2000000, 30000, 500000 >>,
    << 28, 1, 0, 3500000, 10000, 1000000, 0, 0 >>,
    << 45, 2, 0, 4318800, 0, 0, 0, 0 >>,
    << 51, 2, 0, 4678800, 0, 1500000, 0, 0 >>,
    << 60, 6, 4, 50000000, 2000000, 200000000, 2000000, 200000000 >>,
    << 19, 1, 0, 0, 0, 0, 0, 0 >> }

GoalOtherTexts ==
  { <<19990, 30028, 26053, 34892>> (* 世界旅行 *), <<20581, 24247>> (* 健康 *), <<28779, 26143, 31227, 20303>> (* 火星移住 *), <<24180, 21454, 12450, 12483, 12503>> (* 年収アップ *), <<26053, 10, 34892>> (* 旅\n行 *),
    <<20170, 26085, 12398, 28310, 20633>> (* 今日の準備 *), <<26376>> (* 月 *), <<21475, 24231, 38283, 35373>> (* 口座開設 *), <<12397, 12363, 12394>> (* ねかな *),
    <<12354, 12356, 12358, 12360, 12362, 12363, 12365, 12367, 12369, 12371, 12373, 12375, 12377, 12379, 12381, 12383, 12385, 12388, 12390, 12392>> (* あいうえおかきくけこさしすせそたちつてと *),
    <<32, 32>> (*    *),
    <<12354, 12356, 12358, 12360, 12362, 12363, 12365, 12367, 12369, 12371, 12373, 12375, 12377, 12379, 12381, 12383, 12385, 12388, 12390, 12392, 12394, 12395, 12396, 12397, 12398, 12399, 12402, 12405, 12408, 12411, 12414, 12415, 12416, 12417, 12418, 12420, 12422, 12424, 12425, 12426, 12427, 12428, 12429>> (* あいうえおかきくけこさしすせそたちつてとなにぬねのはひふへほまみむめもやゆよらりるれろ *) }

GoalChoices ==
  { << Str(GoalText(g)), Undefined >> :
      g \in {"entrepreneur", "fire", "mortgage", "overseas", "other"} }
    \cup { << Str(<<111, 116, 104, 101, 114>> (* other *)), Str(text) >> : text \in GoalOtherTexts }

Payload(profile, goal, goalOther) ==
  [ t |-> "object",
    age |-> Num(profile[1]),
    household_now |-> Num(profile[2]),
    kids_future |-> Num(profile[3]),
    annual_income_jpy |-> Num(profile[4]),
    monthly_savings_jpy |-> Num(profile[5]),
    current_savings_jpy |-> Num(profile[6]),
    monthly_invest_jpy |-> Num(profile[7]),
    current_invest_jpy |-> Num(profile[8]),
    goal |-> goal,
    goal_other |-> goalOther ]

LetterPayloads ==
  { Payload(profile, choice[1], choice[2]) :
      profile \in Profiles, choice \in GoalChoices }

\* The inputs parseLetterInput accepts among them.
LetterInputs ==
  { parseLetterInput(payload).data :
      payload \in { q \in LetterPayloads : parseLetterInput(q).ok } }

Variants == 0..2

Overrides == {NoOverride} \cup { << severity >> : severity \in 0..4 }

InitLetter ==
  /\ input \in LetterInputs
  /\ projections = <<>>
  /\ variant \in Variants
  /\ severityOverride \in Overrides
  /\ letter = <<>>
  /\ op = "none"
  /\ parsePayload = <<>>
  /\ parseResult = <<>>
  /\ sevenLines = <<>>
  /\ ServerIdle

BuildTemplateLetterVariant ==
  /\ projections # <<>>
  /\ op = "none"
  /\ letter' = buildTemplateLetterVariant(input, variant, projections[1],
                                          severityOverride)
  /\ op' = "buildTemplateLetterVariant"
  /\ UNCHANGED <<input, projections, variant, severityOverride>>
  /\ UNCHANGED <<parsePayload, parseResult, sevenLines>>
  /\ UNCHANGED serverVars

BuildTemplateLetter ==
  /\ projections # <<>>
  /\ op = "none"
  /\ letter' = buildTemplateLetter(input, projections[1], severityOverride)
  /\ op' = "buildTemplateLetter"
  /\ UNCHANGED <<input, projections, variant, severityOverride>>
  /\ UNCHANGED <<parsePayload, parseResult, sevenLines>>
  /\ UNCHANGED serverVars

NextLetter ==
  \/ ComputeProjections
  \/ BuildTemplateLetterVariant
  \/ BuildTemplateLetter

SpecLetter == InitLetter /\ [][NextLetter]_vars

\* C1: for every input parseLetterInput accepts (all five goals, goal other
\* with any accepted goal_other text) and its projection, the string
\* buildTemplateLetter returns has exactly 7 lines, line 5 is
\* REQUIRED_HOOK_SENTENCE, line 6 is REQUIRED_METHODS_SENTENCE and line 4
\* holds exactly one "。", as its last character.
C1_SevenLineShape ==
  (op = "buildTemplateLetter" /\ severityOverride = NoOverride) =>
    /\ Len(SplitLines(letter)) = 7
    /\ SplitLines(letter)[5] = REQUIRED_HOOK_SENTENCE
    /\ SplitLines(letter)[6] = REQUIRED_METHODS_SENTENCE
    /\ CountOf(SplitLines(letter)[4], MARU) = 1
    /\ EndsWith(SplitLines(letter)[4], MARU)

\* C2: for each of the five goals and each variant 0, 1, 2 the letter
\* buildTemplateLetterVariant builds passes every rule predicate:
\* hasForbiddenLetterTerms and hasProhibitedLetterPhrases are false,
\* hasRequiredHookPhrase, hasSingleSentenceLine4, hasSevenLines,
\* hasRequiredLine5Hook and hasRequiredLine6Methods are true.
C2_VariantsPassRules ==
  (op = "buildTemplateLetterVariant" /\ severityOverride = NoOverride) =>
    /\ ~hasForbiddenLetterTerms(letter)
    /\ ~hasProhibitedLetterPhrases(letter)
    /\ hasRequiredHookPhrase(letter)
    /\ hasSingleSentenceLine4(letter)
    /\ hasSevenLines(letter)
    /\ hasRequiredLine5Hook(letter)
    /\ hasRequiredLine6Methods(letter)

Built == op \in {"buildTemplateLetterVariant", "buildTemplateLetter"}

\* The severity buildTemplateLetterVariant used for the letter.
UsedSeverity == templateSeverity(input, projections[1], severityOverride)

\* The lines of a letter before its last four (line 4, the hook, the methods
\* and the closing line), joined: lines 2 and 3 after the greeting.
OpeningLines(text) ==
  JoinLines(SubSeq(SplitLines(text), 1, Len(SplitLines(text)) - 4))

\* C11: whenever the severity used by buildTemplateLetterVariant is 3 or 4,
\* the letter contains one of the words of STRAINED_WORDS; it does so
\* already in line 2 or line 3.
C11_StrainedAtHighSeverity ==
  (Built /\ UsedSeverity >= 3) =>
    /\ \E word \in STRAINED_WORDS : Includes(letter, word)
    /\ \E word \in STRAINED_WORDS : Includes(OpeningLines(letter), word)

C11_Witness ==
  /\ Built
  /\ severityOverride = NoOverride
  /\ input.goal = "other"
  /\ computeGapSeverity(input, projections[1]) < 3
  /\ UsedSeverity >= 3
  /\ \E word \in STRAINED_WORDS : Includes(OpeningLines(letter), word)

\* The variant the letter was built with.
UsedVariant ==
  IF op = "buildTemplateLetter" THEN pickTemplateVariant(input) ELSE variant

\* The sentences emitted as line 2 and line 3 of the letter.
EmittedPair == emitted(input, UsedVariant, projections[1], severityOverride)

\* C12: the sentences finally emitted as line 2 and line 3 never carry the
\* same ending category, and the concatenation of line 2 and line 3 never
\* matches DENYLIST_PATTERN.
C12_DistinctEndingsNoDenylist ==
  Built =>
    /\ EmittedPair.line2.ending # EmittedPair.line3.ending
    /\ ~IncludesAny(EmittedPair.line2.text \o EmittedPair.line3.text,
                    DENYLIST_PATTERN)

\* The literal endings of the claim, in its order.
ENDINGS ==
  << <<12397, 12290>> (* ね。 *), <<12363, 12394, 12290>> (* かな。 *), <<12387, 12390, 24863, 12376, 12290>> (* って感じ。 *), <<12363, 12418, 12290>> (* かも。 *), <<12394, 12435, 12384, 12290>> (* なんだ。 *), <<12392, 24605, 12358, 12290>> (* と思う。 *) >>

\* The first of ENDINGS the line ends with, or the empty text.
pickEnding(line) ==
  IF \E k \in 1..Len(ENDINGS) : EndsWith(line, ENDINGS[k])
  THEN ENDINGS[CHOOSE k \in 1..Len(ENDINGS) :
                 /\ EndsWith(line, ENDINGS[k])
                 /\ \A m \in 1..(k - 1) : ~EndsWith(line, ENDINGS[m])]
  ELSE <<>>

\* C13: line 2 and line 3 of the template letter each end with one of the
\* literal endings, and the ending of line 2 differs from that of line 3.
C13_LiteralEndingsDiffer ==
  (op = "buildTemplateLetter" /\ severityOverride = NoOverride) =>
    /\ pickEnding(SplitLines(letter)[2]) # <<>>
    /\ pickEnding(SplitLines(letter)[3]) # <<>>
    /\ pickEnding(SplitLines(letter)[2]) # pickEnding(SplitLines(letter)[3])

\* The keyword the claim expects in line 3.
ExpectedKeyword ==
  CASE input.goal = "entrepreneur" -> <<36215, 26989>> (* 起業 *)
    [] input.goal = "fire" -> <<70, 73, 82, 69>> (* FIRE *)
    [] input.goal = "mortgage" -> <<20303, 23429, 12525, 12540, 12531, 23436, 28168>> (* 住宅ローン完済 *)
    [] input.goal = "overseas" -> <<28023, 22806, 31227, 20303>> (* 海外移住 *)
    [] OTHER -> input.goal_other

\* C14: line 3 of the template letter contains the goal's keyword: the fixed
\* word of a named goal, the user's goal_other text for goal = other.
C14_Line3MentionsGoal ==
  (op = "buildTemplateLetter" /\ severityOverride = NoOverride) =>
    Includes(SplitLines(letter)[3], ExpectedKeyword)

\* The line-4 sentence of the letter: the fourth line from its end.
Line4Of(text) == SplitLines(text)[Len(SplitLines(text)) - 3]

\* C24: for a projection with life_quality_tier t in 1..5
\* computeGapSeverity returns 5 - t; the severity the template engine then
\* uses, visible in the line-4 sentence of the letter, is that base for the
\* four named goals and min(4, base + d) with d in {0, 1, 2} for goal
\* other, so it lies in 0..4 and is never below the base.
C24_SeverityFromTier ==
  (Built /\ severityOverride = NoOverride) =>
    LET tier == projections[1].life_quality_tier
        base == 5 - tier
    IN /\ tier \in 1..5
       /\ computeGapSeverity(input, projections[1]) = base
       /\ UsedSeverity \in 0..4
       /\ UsedSeverity >= base
       /\ Line4Of(letter) = buildLine4(UsedSeverity, UsedVariant)
       /\ input.goal # "other" => UsedSeverity = base
       /\ input.goal = "other" =>
            \E d \in 0..2 : UsedSeverity = Min(4, base + d)

\* A dream goal on tier 2: base 3, raised by 2 and held at 4.
C24_Witness ==
  /\ Built
  /\ severityOverride = NoOverride
  /\ input.goal = "other"
  /\ input.goal_other = <<28779, 26143, 31227, 20303>> (* 火星移住 *)
  /\ projections[1].life_quality_tier = 2
  /\ UsedSeverity = 4
  /\ Line4Of(letter) = buildLine4(4, UsedVariant)

\* The input with the fields other than age, household_now, kids_future
\* and goal taken from another household and another goal_other text.
withOtherMeans(in, profile, text) ==
  [in EXCEPT !.annual_income_jpy = profile[4],
             !.monthly_savings_jpy = profile[5],
             !.current_savings_jpy = profile[6],
             !.monthly_invest_jpy = profile[7],
             !.current_invest_jpy = profile[8],
             !.goal_other = IF in.goal = "other" THEN text ELSE in.goal_other]

----------------------------------------------------------------------------
(* The rate limiter: src/unnamed/part_006 *)

RATE_LIMIT == 3

WINDOW_MS == 60000

\* map.set(key, value) on a Map held as a function
\* A map whose set writes the value under every key it holds.
MapSet_EveryKey(map, key, value) ==
  [k \in DOMAIN map \cup {key} |-> value]

MapSet(map, key, value) ==
  [k \in DOMAIN map \cup {key} |-> IF k = key THEN value ELSE map[k]]

prune_KeepAtWindowEdge(timestamps, time) ==
  SelectSeq(timestamps, LAMBDA timestamp : time - timestamp <= WINDOW_MS)

prune(timestamps, time) ==
  SelectSeq(timestamps, LAMBDA timestamp : time - timestamp < WINDOW_MS)

\* recent of checkRateLimit: the pruned bucket of ip, [] where it has none
recentOf(ip) ==
  prune(IF ip \in DOMAIN buckets THEN buckets[ip] ELSE <<>>, now)

\* Math.ceil(n / d) for d > 0
CeilDiv(n, d) == -((-n) \div d)

rateResult_OneTooMany(ip, recent) ==
  IF Len(recent) > RATE_LIMIT
  THEN [ allowed |-> FALSE,
         retryAfter |-> Max(1, CeilDiv(WINDOW_MS - (now - recent[1]), 1000)),
         remaining |-> 0,
         buckets |-> buckets ]
  ELSE [ allowed |-> TRUE,
         retryAfter |-> 0,
         remaining |-> Max(0, RATE_LIMIT - (Len(recent) + 1)),
         buckets |-> MapSet(buckets, ip, Append(recent, now)) ]

\* checkRateLimit(ip), its result and the buckets it leaves, from recent on
rateResult(ip, recent) ==
  IF Len(recent) >= RATE_LIMIT
  THEN [ allowed |-> FALSE,
         retryAfter |-> Max(1, CeilDiv(WINDOW_MS - (now - recent[1]), 1000)),
         remaining |-> 0,
         buckets |-> buckets ]
  ELSE [ allowed |-> TRUE,
         retryAfter |-> 0,
         remaining |-> Max(0, RATE_LIMIT - (Len(recent) + 1)),
         buckets |-> MapSet(buckets, ip, Append(recent, now)) ]

checkRateLimit(ip) == rateResult(ip, recentOf(ip))

\* The record calls keeps of checkRateLimit(ip) answering rate at time now.
callOf(ip, rate) ==
  [ ip |-> ip, at |-> now, allowed |-> rate.allowed,
    retryAfter |-> rate.retryAfter, remaining |-> rate.remaining ]

----------------------------------------------------------------------------
(* The route: src/app/letter-from-future/api/letter/route.ts *)

DISCLAIMER_TEXT ==
  <<8251, 25903, 20986, 20363, 12398, 20182, 12289, 12465, 12460, 12539, 30149, 27671, 12539, 20303, 23429, 12394, 12393, 12398, 22823, 12365, 12394, 25903, 20986, 12289, 20844, 30340, 36000, 25285, 12289, 35576, 36027, 29992, 12289, 29289, 20385, 22793, 21205, 12394, 12393, 12399, 35430, 31639, 12395, 21453, 26144, 12375, 12390, 12356, 12414, 12379, 12435, 12290>> (* ※支出例の他、ケガ・病気・住宅などの大きな支出、公的負担、諸費用、物価変動などは試算に反映していません。 *)

LIMITS ==
  [letter |-> 320, plan |-> 60, cta |-> 200, disclaimer |-> 90, total |-> 600]

POLISH_TIMEOUT_MS == 2000

\* Array.from(text).length: the code points, a surrogate pair counting once
countChars(text) ==
  Len(SelectSeq(text, LAMBDA c : ~(c >= 56320 /\ c <= 57343)))

\* The phrases normalizeLetter deletes from every line, in its order.
REMOVED_PHRASES ==
  << <<20170, 26085, 12398, 28310, 20633, 12395, 12363, 12363, 12387, 12390, 12427>> (* 今日の準備にかかってる *),
     <<20170, 26085, 12398, 28310, 20633, 12395, 12363, 12363, 12387, 12390, 12356, 12427>> (* 今日の準備にかかっている *),
     <<20170, 26085, 12398, 28310, 20633, 12395, 12363, 12363, 12387, 12390, 12383>> (* 今日の準備にかかってた *),
     <<20170, 26085, 12398, 28310, 20633, 12395, 12363, 12363, 12387, 12390, 12356, 12383>> (* 今日の準備にかかっていた *),
     <<20170, 26085, 12398, 28310, 20633>> (* 今日の準備 *),
     <<21313, 24180, 24460, 12398, 23433, 24515, 12399, 12289, 12354, 12398, 26085, 12398, 28310, 20633, 12395, 12363, 12363, 12387, 12390, 12383, 12290>> (* 十年後の安心は、あの日の準備にかかってた。 *),
     REQUIRED_HOOK_SENTENCE,
     REQUIRED_METHODS_SENTENCE >>

RECURSIVE removePhrases(_, _)
removePhrases(line, k) ==
  IF k > Len(REMOVED_PHRASES) THEN line
  ELSE removePhrases(ReplaceAll(line, REMOVED_PHRASES[k], <<>>), k + 1)

\* lines.map((line) => line.trim())
TrimEach(lines) == [i \in 1..Len(lines) |-> Trim(lines[i])]

\* The padding to seven lines or the cut to the first seven.
sevenOf(lines) ==
  IF Len(lines) < 7
  THEN lines \o [i \in 1..(7 - Len(lines)) |-> <<>>]
  ELSE SubSeq(lines, 1, 7)

\* Lines 1 and 7 set, the phrases deleted from every line, lines 5 and 6 set.
fixedLines(lines) ==
  [i \in 1..7 |->
     IF i = 5 THEN REQUIRED_HOOK_SENTENCE
     ELSE IF i = 6 THEN REQUIRED_METHODS_SENTENCE
     ELSE Trim(removePhrases(IF i = 1 THEN LINE1
                             ELSE IF i = 7 THEN LINE7
                             ELSE lines[i], 1))]

COMMA_JA == <<12289>> (* 、 *)

RECURSIVE JoinWith(_, _)
JoinWith(parts, sep) ==
  IF parts = <<>> THEN <<>>
  ELSE IF Len(parts) = 1 THEN parts[1]
  ELSE parts[1] \o sep \o JoinWith(Tail(parts), sep)

\* text.replace(/、?$/, "。")
closeSentence(text) ==
  (IF EndsWith(text, COMMA_JA) THEN SubSeq(text, 1, Len(text) - 1) ELSE text)
    \o MARU

\* parts = line4.split("。"); last = parts.pop(); the rest joined with "、"
mergeSentences(parts) ==
  closeSentence(JoinWith(FilterNonEmpty(SubSeq(parts, 1, Len(parts) - 1)),
                         COMMA_JA)
                  \o COMMA_JA \o parts[Len(parts)])

repairLine4(line4) ==
  IF CountOf(line4, MARU) > 1 THEN mergeSentences(SplitFrom(line4, MARU, 1))
  ELSE IF CountOf(line4, MARU) = 0 /\ line4 # <<>> THEN line4 \o MARU
  ELSE line4

withLine4(lines) == [lines EXCEPT ![4] = repairLine4(lines[4])]

normalizeLetter(text) ==
  Trim(JoinLines(withLine4(fixedLines(sevenOf(
    FilterNonEmpty(TrimEach(SplitLines(text))))))))

normalizeDisclaimer(text) ==
  IF Includes(text, <<22823, 12365, 12394, 20986, 36027>> (* 大きな出費 *)) /\ Includes(text, <<31246, 37329>> (* 税金 *))
       /\ Includes(text, <<12452, 12531, 12501, 12524>> (* インフレ *))
  THEN text
  ELSE DISCLAIMER_TEXT

\* The condition under which POST keeps a rewrite, after normalizeLetter.
polishValid(polished) ==
  ~( \/ hasForbiddenLetterTerms(polished)
     \/ hasProhibitedLetterPhrases(polished)
     \/ ~hasRequiredHookPhrase(polished)
     \/ ~hasRequiredLine5Hook(polished)
     \/ ~hasRequiredLine6Methods(polished)
     \/ ~hasSingleSentenceLine4(polished)
     \/ ~hasSevenLines(polished) )

\* String(n) for an integer n >= 0
RECURSIVE NumberText(_)
NumberText(n) ==
  IF n < 10 THEN DigitText(n)
  ELSE NumberText(n \div 10) \o DigitText(n % 10)

COLON == <<58>> (* : *)

cacheKeyOf(in, variantIx, gapSeverity) ==
  NumberText(in.age) \o COLON \o NumberText(in.household_now) \o COLON
    \o NumberText(in.kids_future) \o COLON \o GoalText(in.goal) \o COLON
    \o (IF in.goal = "other" THEN Trim(in.goal_other) ELSE <<>>) \o COLON
    \o NumberText(variantIx) \o COLON \o NumberText(gapSeverity)

UNKNOWN_IP == <<117, 110, 107, 110, 111, 119, 110>> (* unknown *)

\* request.headers.get("x-forwarded-for")?.split(",")[0]?.trim() || "unknown"
\* for the header <<value>>, << >> when the request carries none.
clientIp(forwardedFor) ==
  IF forwardedFor = <<>> \/ Trim(SplitFrom(forwardedFor[1], <<44>> (* , *), 1)[1]) = <<>>
  THEN UNKNOWN_IP
  ELSE Trim(SplitFrom(forwardedFor[1], <<44>> (* , *), 1)[1])

----------------------------------------------------------------------------
(* The requests and the replies of the external service the handler runs   *)
(* are checked with.                                                       *)

\* request.json() rejecting
JsonError == [t |-> "error"]

TestProfile == << 32, 2, 1, 4500000, 20000, 2000000, 30000, 500000 >>

UnderAge == << 17, 2, 1, 4500000, 20000, 2000000, 30000, 500000 >>

\* The x-forwarded-for header of a request behind two proxies.
Forwarded == << <<32, 50, 48, 51, 46, 48, 46, 49, 49, 51, 46, 55, 32, 44, 32, 49, 48, 46, 48, 46, 48, 46, 49>> (*  203.0.113.7 , 10.0.0.1 *) >>

\* The requests: a body and the x-forwarded-for header, if any.
Requests ==
  { [ body |-> JsonError, forwardedFor |-> <<>> ],
    [ body |-> Payload(UnderAge, Str(<<109, 111, 114, 116, 103, 97, 103, 101>> (* mortgage *)), Undefined),
      forwardedFor |-> <<>> ],
    [ body |-> Payload(TestProfile, Str(<<109, 111, 114, 116, 103, 97, 103, 101>> (* mortgage *)), Undefined),
      forwardedFor |-> Forwarded ],
    [ body |-> Payload(TestProfile, Str(<<111, 116, 104, 101, 114>> (* other *)), Str(<<26053, 10, 34892>> (* 旅\n行 *))),
      forwardedFor |-> Forwarded ] }

ApiKeys == { <<>>, << <<32, 32>> (*    *) >>, << <<115, 107, 45, 116, 101, 115, 116>> (* sk-test *) >> }

TickSteps == { POLISH_TIMEOUT_MS, WINDOW_MS }

\* text with its line k replaced
WithLine(text, k, line) == JoinLines([ SplitLines(text) EXCEPT ![k] = line ])

LongLine == [i \in 1..LongLineLen |-> 12354] \o <<12363, 12394, 12290>> (* かな。 *)

JsonLetter(text) == [t |-> "json", letter |-> Str(text)]

\* What generateStructuredJson may resolve with for a request whose base
\* letter is baseLetter: lines 2 and 3 rewritten; line 4 rewritten; a line 2
\* longer than LIMITS.letter; a forbidden term; no letter key; text that is
\* not JSON; the empty string.
PolishReplies(baseLetter) ==
  { [ kind |-> "rewrite",
      raw |-> JsonLetter(WithLine(
                WithLine(baseLetter, 2,
                         <<12362, 20803, 27671, 12391, 12377, 12363, 65311, 12371, 12387, 12385, 12399, 27598, 26085, 12364, 12394, 12435, 12392, 12363, 22238, 12387, 12390, 12427, 12363, 12394, 12290>> (* お元気ですか？こっちは毎日がなんとか回ってるかな。 *)),
                3, <<30446, 27161, 12395, 12399, 23569, 12375, 12378, 12388, 36817, 12389, 12356, 12390, 12427, 24863, 12376, 12290>> (* 目標には少しずつ近づいてる感じ。 *))) ],
    [ kind |-> "line4",
      raw |-> JsonLetter(WithLine(baseLetter, 4,
                                  <<29983, 27963, 12399, 12392, 12390, 12418, 38918, 35519, 12391, 12289, 24515, 37197, 12399, 12356, 12425, 12394, 12356, 12392, 24605, 12358, 12290>> (* 生活はとても順調で、心配はいらないと思う。 *))) ],
    [ kind |-> "long",
      raw |-> JsonLetter(WithLine(baseLetter, 2, LongLine)) ],
    [ kind |-> "forbidden",
      raw |-> JsonLetter(WithLine(baseLetter, 3,
                                  <<30446, 27161, 12398, 12383, 12417, 12398, 24180, 21454, 12399, 22679, 12360, 12390, 12365, 12383, 12363, 12394, 12290>> (* 目標のための年収は増えてきたかな。 *))) ],
    [ kind |-> "noLetter", raw |-> [t |-> "json", letter |-> Undefined] ],
    [ kind |-> "unparsable", raw |-> [t |-> "garbage", letter |-> Undefined] ],
    [ kind |-> "empty", raw |-> [t |-> "empty", letter |-> Undefined] ] }

----------------------------------------------------------------------------
(* The pure functions the handler calls, tabulated once over the requests  *)
(* and the replies above, so that a step of the handler looks its values   *)
(* up: each Memo_f(x) is f(x).                                             *)

Range(table) == { table[x] : x \in DOMAIN table }

Lookup(table, x, otherwise) ==
  IF x \in DOMAIN table THEN table[x] ELSE otherwise

PayloadBodies == { request.body : request \in Requests } \ { JsonError }

ParsedTable == [ body \in PayloadBodies |-> parseLetterInput(body) ]

Memo_parseLetterInput(body) ==
  Lookup(ParsedTable, body, parseLetterInput(body))

ValidInputs ==
  { parsed.data : parsed \in { result \in Range(ParsedTable) : result.ok } }

ProjectionsTable == [ data \in ValidInputs |-> computeProjections(data) ]

Memo_computeProjections(data) ==
  Lookup(ProjectionsTable, data, computeProjections(data))

\* The arguments POST calls buildTemplateContent with.
baseArguments(data, projs) ==
  << data, projs[1], << computeGapSeverity(data, projs[1]) >> >>

BaseTable ==
  [ args \in { baseArguments(data, computeProjections(data)) :
                 data \in ValidInputs } |->
      buildTemplateContent(args[1], args[2], args[3]) ]

Memo_buildTemplateContent(data, projection, override) ==
  Lookup(BaseTable, << data, projection, override >>,
         buildTemplateContent(data, projection, override))

\* The letters of the replies that carry one.
replyLetters(replies) ==
  { reply.raw.letter.v :
      reply \in { r \in replies : r.raw.letter.t = "string" } }

\* The texts the handler normalizes: the template letters, the letters of
\* the replies to their base letters, and the rewrites it keeps.
textsWithReplies(templates, letters) ==
  templates \cup letters
    \cup { polished \in { normalizeLetter(text) : text \in letters } :
             polishValid(polished) }

textsOf(templates) ==
  textsWithReplies(
    templates,
    replyLetters(UNION { PolishReplies(normalizeLetter(text)) :
                           text \in templates }))

NormalizeTable ==
  [ text \in textsOf({ content.letter : content \in Range(BaseTable) }) |->
      normalizeLetter(text) ]

Memo_normalizeLetter(text) ==
  Lookup(NormalizeTable, text, normalizeLetter(text))

ValidTable ==
  [ polished \in Range(NormalizeTable) |-> polishValid(polished) ]

Memo_polishValid(polished) ==
  Lookup(ValidTable, polished, polishValid(polished))

RepliesTable ==
  [ baseLetter \in Range(NormalizeTable) |-> PolishReplies(baseLetter) ]

Memo_PolishReplies(baseLetter) ==
  Lookup(RepliesTable, baseLetter, PolishReplies(baseLetter))

----------------------------------------------------------------------------
(* The steps of POST *)

\* process.env.OPENAI_API_KEY ?? "", without the trim
apiKeyOf_Untrimmed(env) == IF env = <<>> THEN <<>> ELSE env[1]

\* (process.env.OPENAI_API_KEY ?? "").trim() for the environment value
\* <<value>>, << >> when the variable is not set.
apiKeyOf(env) == IF env = <<>> THEN <<>> ELSE Trim(env[1])

\* The response of a request that fails, and what it carries.
ErrorResponse(id, status, code, projs, retryAfter) ==
  [ NoResponse EXCEPT !.id = id, !.status = status, !.code = code,
                      !.projections = projs, !.retryAfter = retryAfter ]

\* content.disclaimer = normalizeDisclaimer(content.disclaimer); the summary
\* and the evidence fields POST fills in next are not part of this record.
finishContent(content) ==
  [ content EXCEPT !.disclaimer = normalizeDisclaimer(content.disclaimer) ]

\* The ok:true response, with the request it answers, where its letter came
\* from (origin) and the request's baseLetter beside it.
OkResponse(id, data, projs, content, origin, baseLetter) ==
  [ id |-> id, status |-> 200, ok |-> TRUE, code |-> "none",
    origin |-> origin, input |-> data,
    projections |-> projs, content |-> finishContent(content),
    baseLetter |-> baseLetter, retryAfter |-> 0 ]

\* POST from the inner try to the await of generateStructuredJson: the
\* answer from polishCache, the answer with baseLetter when the client has
\* neither create method (generateStructuredJson rejects before it calls
\* anything), or the request left waiting for its first create call.
startPolish(id, data, projs) ==
  \E gapSeverity \in { computeGapSeverity(data, projs[1]) } :
  \E base \in { Memo_buildTemplateContent(data, projs[1], << gapSeverity >>) } :
  \E baseLetter \in { Memo_normalizeLetter(base.letter) } :
  \E cacheKey \in { cacheKeyOf(data, pickTemplateVariant(data), gapSeverity) } :
    IF cacheKey \in DOMAIN polishCache /\ polishCache[cacheKey] # <<>>
    THEN /\ response' =
              OkResponse(id, data, projs,
                         [ base EXCEPT
                             !.letter =
                               Memo_normalizeLetter(polishCache[cacheKey]) ],
                         "cache", baseLetter)
         /\ UNCHANGED << polishCache, pending >>
    ELSE IF sdk = "none"
    THEN /\ response' =
              OkResponse(id, data, projs,
                         [ base EXCEPT !.letter = baseLetter ],
                         "fallback", baseLetter)
         /\ UNCHANGED << polishCache, pending >>
    ELSE /\ pending' = pending \cup
              { [ id |-> id, input |-> data, projections |-> projs,
                  base |-> base, baseLetter |-> baseLetter,
                  cacheKey |-> cacheKey,
                  deadline |-> now + POLISH_TIMEOUT_MS,
                  creates |-> 1 ] }
         /\ UNCHANGED << polishCache, response >>

\* A handler that asks checkRateLimit before it reads the body.
Post_LimitsFirst(body, forwardedFor) ==
  /\ started < MaxRequests
  /\ started' = started + 1
  /\ UNCHANGED << now, apiKey, sdk, calls >>
  /\ UNCHANGED engineVars
  /\ \E rate \in { checkRateLimit(clientIp(forwardedFor)) } :
       /\ buckets' = rate.buckets
       /\ IF ~rate.allowed
          THEN /\ response' = ErrorResponse(started + 1, 429, "rate_limited",
                                            <<>>, rate.retryAfter)
               /\ UNCHANGED << polishCache, pending >>
          ELSE IF body = JsonError
          THEN /\ response' = ErrorResponse(started + 1, 400, "invalid_json",
                                            <<>>, 0)
               /\ UNCHANGED << polishCache, pending >>
          ELSE \E parsed \in { Memo_parseLetterInput(body) } :
               IF ~parsed.ok
               THEN /\ response' = ErrorResponse(started + 1, parsed.status,
                                                 parsed.code, <<>>, 0)
                    /\ UNCHANGED << polishCache, pending >>
               ELSE \E projs \in { Memo_computeProjections(parsed.data) } :
                    IF apiKeyOf(apiKey) = <<>>
                    THEN /\ response' =
                              ErrorResponse(started + 1, 500,
                                            "missing_api_key", projs, 0)
                         /\ UNCHANGED << polishCache, pending >>
                    ELSE startPolish(started + 1, parsed.data, projs)

\* POST up to its first await after request.json().
Post(body, forwardedFor) ==
  /\ started < MaxRequests
  /\ started' = started + 1
  /\ UNCHANGED << now, apiKey, sdk, calls >>
  /\ UNCHANGED engineVars
  /\ IF body = JsonError
     THEN /\ response' = ErrorResponse(started + 1, 400, "invalid_json", <<>>, 0)
          /\ UNCHANGED << buckets, polishCache, pending >>
     ELSE \E rate \in { checkRateLimit(clientIp(forwardedFor)) } :
          /\ buckets' = rate.buckets
          /\ IF ~rate.allowed
             THEN /\ response' = ErrorResponse(started + 1, 429, "rate_limited",
                                               <<>>, rate.retryAfter)
                  /\ UNCHANGED << polishCache, pending >>
             ELSE \E parsed \in { Memo_parseLetterInput(body) } :
                  IF ~parsed.ok
                  THEN /\ response' = ErrorResponse(started + 1, parsed.status,
                                                    parsed.code, <<>>, 0)
                       /\ UNCHANGED << polishCache, pending >>
                  ELSE \E projs \in { Memo_computeProjections(parsed.data) } :
                       IF apiKeyOf(apiKey) = <<>>
                       THEN /\ response' =
                                 ErrorResponse(started + 1, 500,
                                               "missing_api_key", projs, 0)
                            /\ UNCHANGED << polishCache, pending >>
                       ELSE startPolish(started + 1, parsed.data, projs)

\* A request arriving while fewer than MaxPending wait for the rewrite.
PostBegin(body, forwardedFor) ==
  /\ Cardinality(pending) < MaxPending
  /\ Post(body, forwardedFor)

\* The inner catch, were it to store the letter it answers with.
fallback_Stores(p) ==
  /\ response' = OkResponse(p.id, p.input, p.projections,
                            [ p.base EXCEPT !.letter = p.baseLetter ],
                            "fallback", p.baseLetter)
  /\ polishCache' = MapSet(polishCache, p.cacheKey, p.baseLetter)

\* The inner catch of POST: the answer with baseLetter.
fallback(p) ==
  /\ response' = OkResponse(p.id, p.input, p.projections,
                            [ p.base EXCEPT !.letter = p.baseLetter ],
                            "fallback", p.baseLetter)
  /\ UNCHANGED polishCache

\* POST resumed, were it to look the cache up again after the await and
\* answer with the rewrite another request stored meanwhile.
PolishReturn_AnswersStored(p, reply) ==
  /\ p \in pending
  /\ now < p.deadline
  /\ pending' = pending \ {p}
  /\ UNCHANGED << now, buckets, apiKey, sdk, started, calls >>
  /\ UNCHANGED engineVars
  /\ IF reply.raw.t # "json" \/ reply.raw.letter.t # "string"
     THEN fallback(p)
     ELSE \E polished \in { Memo_normalizeLetter(reply.raw.letter.v) } :
          IF ~Memo_polishValid(polished) THEN fallback(p)
          ELSE IF p.cacheKey \in DOMAIN polishCache
          THEN /\ UNCHANGED polishCache
               /\ response' = OkResponse(p.id, p.input, p.projections,
                                         [ p.base EXCEPT
                                             !.letter = polishCache[p.cacheKey] ],
                                         "polish", p.baseLetter)
          ELSE /\ polishCache' = MapSet(polishCache, p.cacheKey, polished)
               /\ response' = OkResponse(p.id, p.input, p.projections,
                                         [ p.base EXCEPT !.letter = polished ],
                                         "polish", p.baseLetter)

\* POST resumed by the result of generateStructuredJson: rawText empty,
\* JSON.parse or normalizeLetter throwing, the rewrite refused, or kept.
PolishReturn(p, reply) ==
  /\ p \in pending
  /\ now < p.deadline
  /\ pending' = pending \ {p}
  /\ UNCHANGED << now, buckets, apiKey, sdk, started, calls >>
  /\ UNCHANGED engineVars
  /\ IF reply.raw.t # "json" \/ reply.raw.letter.t # "string"
     THEN fallback(p)
     ELSE \E polished \in { Memo_normalizeLetter(reply.raw.letter.v) } :
          IF Memo_polishValid(polished)
          THEN /\ polishCache' = MapSet(polishCache, p.cacheKey, polished)
               /\ response' = OkResponse(p.id, p.input, p.projections,
                                         [ p.base EXCEPT !.letter = polished ],
                                         "polish", p.baseLetter)
          ELSE fallback(p)

\* POST resumed by generateStructuredJson rejecting: an upstream or network
\* error of responses.create, of the first chat.completions.create when it
\* is not one the chat branch retries, or of the second.
PolishThrow(p) ==
  /\ p \in pending
  /\ now < p.deadline
  /\ pending' = pending \ {p}
  /\ fallback(p)
  /\ UNCHANGED << now, buckets, apiKey, sdk, started, calls >>
  /\ UNCHANGED engineVars

\* A handler whose abort timer is never armed.
PolishAbort_Unarmed(p) ==
  /\ p \in pending
  /\ now > p.deadline
  /\ pending' = pending \ {p}
  /\ fallback(p)
  /\ UNCHANGED << now, buckets, apiKey, sdk, started, calls >>
  /\ UNCHANGED engineVars

\* polishController.abort() after POLISH_TIMEOUT_MS: the call rejects.
PolishAbort(p) ==
  /\ p \in pending
  /\ now = p.deadline
  /\ pending' = pending \ {p}
  /\ fallback(p)
  /\ UNCHANGED << now, buckets, apiKey, sdk, started, calls >>
  /\ UNCHANGED engineVars

\* generateStructuredJson's catch in the chat branch (openai.ts 74-103):
\* the first chat.completions.create was rejected with status 400, or with
\* a message naming json_schema, response_format or structured, and it
\* calls chat.completions.create again, with response_format json_object.
ChatRetry(p) ==
  /\ p \in pending
  /\ sdk = "chat"
  /\ p.creates = 1
  /\ now < p.deadline
  /\ pending' = (pending \ {p}) \cup { [ p EXCEPT !.creates = 2 ] }
  /\ UNCHANGED << now, buckets, polishCache, apiKey, sdk, response, started,
                  calls >>
  /\ UNCHANGED engineVars

\* Date.now() moving on, no further than the next abort timer: by the
\* polish timeout while a call is waiting, by the rate window at any time.
Tick(step) ==
  /\ now + step <= MaxNow
  /\ step = POLISH_TIMEOUT_MS => pending # {}
  /\ \A p \in pending : now + step <= p.deadline
  /\ now' = now + step
  /\ UNCHANGED << buckets, polishCache, apiKey, sdk, pending, response, started,
                  calls >>
  /\ UNCHANGED engineVars

Init ==
  /\ input = <<>>
  /\ projections = <<>>
  /\ variant = 0
  /\ severityOverride = NoOverride
  /\ letter = <<>>
  /\ op = "none"
  /\ parsePayload = <<>>
  /\ parseResult = <<>>
  /\ sevenLines = <<>>
  /\ now = 0
  /\ buckets = EmptyMap
  /\ polishCache = EmptyMap
  /\ apiKey \in ApiKeys
  /\ sdk = "responses"
  /\ pending = {}
  /\ response = NoResponse
  /\ started = 0
  /\ calls = <<>>

Next ==
  \/ \E request \in Requests :
       PostBegin(request.body, request.forwardedFor)
  \/ \E p \in pending : \E reply \in Memo_PolishReplies(p.baseLetter) :
       PolishReturn(p, reply)
  \/ \E p \in pending : PolishThrow(p)
  \/ \E p \in pending : PolishAbort(p)
  \/ \E step \in TickSteps : Tick(step)

Spec == Init /\ [][Next]_vars

----------------------------------------------------------------------------
(* Claims about the POST handler *)

\* Line k of a text, empty when the text has fewer lines.
LineOf(text, k) ==
  IF k <= Len(SplitLines(text)) THEN SplitLines(text)[k] ELSE <<>>

\* C3: when the polish call throws, times out, returns empty or unparsable
\* text, or returns a letter that fails validation, the handler answers
\* ok:true and content.letter is character for character the letter
\* buildTemplateLetter returns for the request's input and projection.
C3_FallbackIsTemplateLetter ==
  response.origin = "fallback" =>
    /\ response.ok
    /\ response.status = 200
    /\ response.content.letter =
         buildTemplateLetter(response.input, response.projections[1],
                             NoOverride)

\* C4: a letter that came from the external rewrite, freshly accepted or
\* served from polishCache, has lines 1, 4, 5, 6 and 7 identical to those of
\* the base letter of the same request.
C4_RewriteKeepsFixedLines ==
  response.origin \in {"polish", "cache"} =>
    \A k \in {1, 4, 5, 6, 7} :
      LineOf(response.content.letter, k) = LineOf(response.baseLetter, k)

\* C5: in every ok:true response content.letter passes all the rule
\* predicates, has at most 320 characters, and letter + plan_save +
\* plan_grow + plan_protect + cta + disclaimer have at most 600 characters.
C5_OkLetterWithinRules ==
  response.ok =>
    /\ polishValid(response.content.letter)
    /\ countChars(response.content.letter) <= 320
    /\ countChars(response.content.letter)
         + countChars(response.content.plan_save)
         + countChars(response.content.plan_grow)
         + countChars(response.content.plan_protect)
         + countChars(response.content.cta)
         + countChars(response.content.disclaimer) <= 600

----------------------------------------------------------------------------
(* The rate limiter called directly: checkRateLimit for a few client IPs,  *)
(* the clock moving by one step at most between two calls.                 *)

\* The bound of the limiter runs: the calls made.
MaxCalls == 5

RateIps == { UNKNOWN_IP, clientIp(Forwarded) }

RateSteps == { 500, 1000, WINDOW_MS - 1000, WINDOW_MS - 500, WINDOW_MS }

InitRateLimit ==
  /\ Init
  /\ apiKey = <<>>

CheckRateLimit(ip) ==
  /\ Len(calls) < MaxCalls
  /\ \E rate \in { checkRateLimit(ip) } :
       /\ buckets' = rate.buckets
       /\ calls' = Append(calls, callOf(ip, rate))
  /\ UNCHANGED << now, polishCache, apiKey, sdk, pending, response, started >>
  /\ UNCHANGED engineVars

\* Date.now() moving on after a call.
RateTick(step) ==
  /\ calls # <<>>
  /\ calls[Len(calls)].at = now
  /\ now + step <= MaxNow
  /\ now' = now + step
  /\ UNCHANGED << buckets, polishCache, apiKey, sdk, pending, response, started,
                  calls >>
  /\ UNCHANGED engineVars

NextRateLimit ==
  \/ \E ip \in RateIps : CheckRateLimit(ip)
  \/ \E step \in RateSteps : RateTick(step)

SpecRateLimit == InitRateLimit /\ [][NextRateLimit]_vars

\* The calls before call k, or all the calls (k = Len(calls) + 1), for ip
\* that were answered allowed:true with a timestamp in the window of
\* WINDOW_MS ending at t.
AllowedInWindow(ip, t, k) ==
  { j \in 1..(k - 1) :
      /\ calls[j].ip = ip
      /\ calls[j].allowed
      /\ t - WINDOW_MS < calls[j].at
      /\ calls[j].at <= t }

\* The instants at which a window ends on a call or begins just after one.
WindowEnds ==
  { calls[k].at + d : k \in 1..Len(calls), d \in {0, WINDOW_MS - 1} } \cup {now}

\* C15: for every client IP and every instant t, at most 3 calls for that
\* IP were answered allowed:true with a timestamp in the 60,000 ms window
\* ending at t; a call that finds 3 of them in its window is answered
\* allowed:false.
C15_AtMostThreePerWindow ==
  /\ \A ip \in RateIps : \A t \in WindowEnds :
       Cardinality(AllowedInWindow(ip, t, Len(calls) + 1)) <= 3
  /\ \A k \in 1..Len(calls) :
       Cardinality(AllowedInWindow(calls[k].ip, calls[k].at, k)) >= 3
         => ~calls[k].allowed

C15_Witness ==
  \E k \in 1..Len(calls) :
    /\ ~calls[k].allowed
    /\ Cardinality(AllowedInWindow(calls[k].ip, calls[k].at, k)) = 3
    /\ \E j \in (k + 1)..Len(calls) :
         calls[j].ip = calls[k].ip /\ calls[j].allowed

\* The timestamp of the oldest allowed call that call k finds in its
\* window, its own timestamp when it finds none.
OldestInWindow(k) ==
  LET found == AllowedInWindow(calls[k].ip, calls[k].at, k)
  IN IF found = {} THEN calls[k].at
     ELSE calls[CHOOSE j \in found :
                  \A m \in found : /\ calls[j].at <= calls[m].at
                                   /\ (calls[j].at = calls[m].at => j <= m)].at

\* Call j is the next call after call k from the same IP.
NextFromSameIp(k, j) ==
  /\ k < j
  /\ calls[j].ip = calls[k].ip
  /\ \A m \in (k + 1)..(j - 1) : calls[m].ip # calls[k].ip

\* C16: a denied call has retryAfter >= 1, equal to the ceiling in seconds
\* of 60,000 ms minus the age of the oldest retained timestamp, and the next
\* call from the same IP made at least retryAfter seconds later is allowed.
C16_RetryAfter ==
  \A k \in 1..Len(calls) :
    ~calls[k].allowed =>
      /\ calls[k].retryAfter >= 1
      /\ calls[k].retryAfter * 1000
           >= WINDOW_MS - (calls[k].at - OldestInWindow(k))
      /\ (calls[k].retryAfter - 1) * 1000
           < WINDOW_MS - (calls[k].at - OldestInWindow(k))
      /\ \A j \in 1..Len(calls) :
           ( /\ NextFromSameIp(k, j)
             /\ calls[j].at >= calls[k].at + calls[k].retryAfter * 1000 )
             => calls[j].allowed

C16_Witness ==
  \E k \in 1..Len(calls) : \E j \in 1..Len(calls) :
    /\ ~calls[k].allowed
    /\ calls[k].retryAfter = 1
    /\ NextFromSameIp(k, j)
    /\ calls[j].at = calls[k].at + calls[k].retryAfter * 1000
    /\ calls[j].allowed

\* buckets.get(ip) ?? [] in the map given.
existingOf(map, ip) == IF ip \in DOMAIN map THEN map[ip] ELSE <<>>

\* What checkRateLimit(ip) would return to its caller in this state.
answerOf(ip) ==
  [ allowed |-> checkRateLimit(ip).allowed,
    retryAfter |-> checkRateLimit(ip).retryAfter,
    remaining |-> checkRateLimit(ip).remaining ]

\* C29: a denied checkRateLimit call leaves every bucket unchanged; an
\* allowed call changes only the bucket of its own IP; no bucket ever holds
\* more than 3 timestamps; and a call from one IP never changes the answer
\* another IP would get.
C29_BucketsPerIp ==
  /\ [](\A ip \in DOMAIN buckets : Len(buckets[ip]) <= 3)
  /\ [][ Len(calls') = Len(calls) + 1 =>
          /\ ~calls'[Len(calls')].allowed => buckets' = buckets
          /\ calls'[Len(calls')].allowed =>
               /\ buckets'[calls'[Len(calls')].ip] # existingOf(buckets, calls'[Len(calls')].ip)
               /\ DOMAIN buckets' = DOMAIN buckets \cup {calls'[Len(calls')].ip}
          /\ \A ip \in RateIps \ {calls'[Len(calls')].ip} :
               /\ existingOf(buckets', ip) = existingOf(buckets, ip)
               /\ answerOf(ip)' = answerOf(ip) ]_vars

C29_Witness ==
  \E k \in 1..Len(calls) : \E j \in 1..Len(calls) :
    /\ k < j
    /\ ~calls[k].allowed
    /\ calls[j].ip # calls[k].ip
    /\ calls[j].allowed
    /\ Len(existingOf(buckets, calls[k].ip)) = 3
    /\ Len(existingOf(buckets, calls[j].ip)) >= 1

\* OPENAI_API_KEY is unset, or holds white space only.
KeyMissing ==
  apiKey = <<>> \/ \A i \in 1..Len(apiKey[1]) : IsSpace(apiKey[1][i])

\* The fingerprint POST looks the request's input up in polishCache with.
fingerprintOf(data) ==
  cacheKeyOf(data, pickTemplateVariant(data),
             computeGapSeverity(data, computeProjections(data)[1]))

\* The fingerprints of the requests' bodies, tabulated once; <<>> for a
\* body parseLetterInput rejects.
FingerprintTable ==
  [ body \in PayloadBodies |->
      IF parseLetterInput(body).ok
      THEN << fingerprintOf(parseLetterInput(body).data) >>
      ELSE <<>> ]

\* The client address POST reads from each request, tabulated once.
IpTable == [ request \in Requests |-> clientIp(request.forwardedFor) ]

\* The request's body is JSON, its client is within the rate limit and
\* parseLetterInput accepts the body.
PassesChecks(request) ==
  /\ request.body # JsonError
  /\ FingerprintTable[request.body] # <<>>
  /\ checkRateLimit(IpTable[request]).allowed

\* C18: when a request passes JSON parsing, rate limiting and validation
\* while OPENAI_API_KEY is unset or blank, POST answers status 500 with
\* ok:false, error.code missing_api_key and the computed projections; no
\* call of the external service is started, no letter is built and
\* polishCache is left unchanged.
C18_MissingApiKey ==
  [][ \A request \in Requests :
        ( /\ started' = started + 1
          /\ KeyMissing
          /\ PassesChecks(request)
          /\ PostBegin(request.body, request.forwardedFor) )
        => /\ response'.id = started + 1
           /\ response'.status = 500
           /\ ~response'.ok
           /\ response'.code = "missing_api_key"
           /\ response'.projections
                = computeProjections(parseLetterInput(request.body).data)
           /\ response'.content = <<>>
           /\ response'.baseLetter = <<>>
           /\ pending' = pending
           /\ polishCache' = polishCache ]_vars

\* A valid request answered while the key is a blank string.
C18_Witness ==
  /\ apiKey = << <<32, 32>> (*    *) >>
  /\ response.code = "missing_api_key"
  /\ response.status = 500
  /\ response.projections # <<>>
  /\ pending = {}
  /\ polishCache = EmptyMap

\* C30: POST checks JSON parsing, then the rate limit, then validation,
\* then the API key. A malformed body is answered 400 invalid_json, never
\* 429, and consumes no quota; a denied request is answered 429 and
\* consumes none; every allowed request with a parseable body adds one
\* timestamp to the bucket of its IP, also when validation or the missing
\* key rejects it.
C30_CheckOrder ==
  [][ \A request \in Requests :
        ( /\ started' = started + 1
          /\ PostBegin(request.body, request.forwardedFor) )
        => IF request.body = JsonError
           THEN /\ response'.status = 400
                /\ response'.code = "invalid_json"
                /\ buckets' = buckets
           ELSE IF ~checkRateLimit(IpTable[request]).allowed
           THEN /\ response'.status = 429
                /\ response'.code = "rate_limited"
                /\ buckets' = buckets
           ELSE /\ buckets' = MapSet(buckets, IpTable[request],
                                     Append(recentOf(IpTable[request]), now))
                /\ IF FingerprintTable[request.body] = <<>>
                   THEN /\ response'.status = 400
                        /\ response'.code \notin
                             {"invalid_json", "rate_limited", "missing_api_key"}
                        /\ pending' = pending
                   ELSE IF KeyMissing
                   THEN /\ response'.status = 500
                        /\ response'.code = "missing_api_key"
                   ELSE \/ pending' # pending
                        \/ response'.ok ]_vars

\* A malformed body answered 400 by an IP whose quota three requests that
\* validation rejected have used up.
C30_Witness ==
  /\ started = 4
  /\ response.id = 4
  /\ response.status = 400
  /\ response.code = "invalid_json"
  /\ UNKNOWN_IP \in DOMAIN buckets
  /\ Len(recentOf(UNKNOWN_IP)) = 3

\* A rewrite is stored under the fingerprint.
Stored(cacheKey) ==
  cacheKey \in DOMAIN polishCache /\ polishCache[cacheKey] # <<>>

\* The step stores the accepted rewrite of a waiting call and answers
\* with it.
StoresAccepted ==
  \E p \in pending :
    /\ pending' = pending \ {p}
    /\ response'.id = p.id
    /\ response'.origin = "polish"
    /\ Memo_polishValid(response'.content.letter)
    /\ \E reply \in Memo_PolishReplies(p.baseLetter) :
         /\ reply.raw.t = "json"
         /\ reply.raw.letter.t = "string"
         /\ response'.content.letter = Memo_normalizeLetter(reply.raw.letter.v)
    /\ polishCache' = MapSet(polishCache, p.cacheKey, response'.content.letter)

\* The step answers from the cache: ok:true with the letter stored under
\* the fingerprint, no call started, the cache as it was.
AnswersCached(cacheKey) ==
  /\ response'.id = started + 1
  /\ response'.ok
  /\ response'.status = 200
  /\ response'.origin = "cache"
  /\ response'.content.letter = polishCache[cacheKey]
  /\ pending' = pending
  /\ polishCache' = polishCache

MaxInFlight == 2

InFlightRequests ==
  { [ body |-> Payload(TestProfile, Str(<<109, 111, 114, 116, 103, 97, 103, 101>> (* mortgage *)), Undefined),
      forwardedFor |-> forwardedFor ] : forwardedFor \in { <<>>, Forwarded } }

InitInFlight ==
  /\ Init
  /\ apiKey = << <<115, 107, 45, 116, 101, 115, 116>> (* sk-test *) >>

Arrive(request) ==
  /\ Cardinality(pending) < MaxInFlight
  /\ Post(request.body, request.forwardedFor)

NextInFlight ==
  \/ \E request \in InFlightRequests : Arrive(request)
  \/ \E p \in pending : \E reply \in Memo_PolishReplies(p.baseLetter) :
       PolishReturn(p, reply)
  \/ \E p \in pending : PolishThrow(p)
  \/ \E p \in pending : PolishAbort(p)
  \/ \E step \in TickSteps : Tick(step)

SpecInFlight == InitInFlight /\ [][NextInFlight]_vars

\* The reply carries a letter that passes the acceptance check once
\* normalized.
AcceptedReply(reply) ==
  /\ reply.raw.t = "json"
  /\ reply.raw.letter.t = "string"
  /\ Memo_polishValid(Memo_normalizeLetter(reply.raw.letter.v))

\* The step answers request p with ok:true and its own base letter, and
\* leaves the cache alone.
AnswersOwnBase(p) ==
  /\ response'.id = p.id
  /\ response'.ok
  /\ response'.status = 200
  /\ response'.input = p.input
  /\ response'.content.letter = p.baseLetter
  /\ polishCache' = polishCache

\* The step answers request p with ok:true and the rewrite its own call
\* returned, which it stores under the fingerprint, over what was there.
AnswersOwnRewrite(p, reply) ==
  /\ response'.id = p.id
  /\ response'.ok
  /\ response'.status = 200
  /\ response'.input = p.input
  /\ response'.content.letter = Memo_normalizeLetter(reply.raw.letter.v)
  /\ polishCache' = MapSet(polishCache, p.cacheKey, response'.content.letter)

\* C20: requests with the same fingerprint that are in flight together,
\* the cache empty when they arrive, each call the external service; in
\* every interleaving each is answered ok:true with its own accepted
\* rewrite or with its own base letter, and the cache entry of the
\* fingerprint is afterwards absent or one accepted rewrite, the last one
\* stored.
C20_ConcurrentSameFingerprint ==
  /\ [][ /\ \A request \in InFlightRequests :
              ( /\ started' = started + 1
                /\ checkRateLimit(clientIp(request.forwardedFor)).allowed
                /\ Arrive(request)
                /\ ~Stored(FingerprintTable[request.body][1]) )
              => \E p \in pending' \ pending :
                   /\ p.id = started + 1
                   /\ p.cacheKey = FingerprintTable[request.body][1]
                   /\ p.input = Memo_parseLetterInput(request.body).data
         /\ \A p \in pending \ pending' :
              /\ \A reply \in Memo_PolishReplies(p.baseLetter) :
                   PolishReturn(p, reply) =>
                     IF AcceptedReply(reply)
                     THEN AnswersOwnRewrite(p, reply)
                     ELSE AnswersOwnBase(p)
              /\ (PolishThrow(p) \/ PolishAbort(p)) => AnswersOwnBase(p) ]_vars
  /\ [](/\ \A p \in pending :
            p.baseLetter = Memo_normalizeLetter(p.base.letter)
        /\ \A cacheKey \in DOMAIN polishCache :
            /\ polishCache[cacheKey] # <<>>
            /\ Memo_polishValid(polishCache[cacheKey]))

\* Two requests with one fingerprint were in flight together; the later
\* one has been answered with its accepted rewrite, now the cache entry,
\* while the earlier one still waits for its call.
C20_Witness ==
  /\ response.ok
  /\ response.origin = "polish"
  /\ \E p \in pending :
       /\ p.id < response.id
       /\ p.input = response.input
       /\ Stored(p.cacheKey)
       /\ polishCache[p.cacheKey] = response.content.letter

----------------------------------------------------------------------------
(* The handler over each shape of client generateStructuredJson tells      *)
(* apart: responses.create present, chat.completions.create only, neither. *)

SdkShapes == { "responses", "chat", "none" }

MaxAccepted == 2

InitSdk ==
  /\ input = <<>>
  /\ projections = <<>>
  /\ variant = 0
  /\ severityOverride = NoOverride
  /\ letter = <<>>
  /\ op = "none"
  /\ parsePayload = <<>>
  /\ parseResult = <<>>
  /\ sevenLines = <<>>
  /\ now = 0
  /\ buckets = EmptyMap
  /\ polishCache = EmptyMap
  /\ apiKey = << <<115, 107, 45, 116, 101, 115, 116>> (* sk-test *) >>
  /\ sdk \in SdkShapes
  /\ pending = {}
  /\ response = NoResponse
  /\ started = 0
  /\ calls = <<>>

\* A request arriving while the clock leaves room for its abort timer.
Accept(request) ==
  /\ started < MaxAccepted
  /\ now + POLISH_TIMEOUT_MS <= MaxNow
  /\ Cardinality(pending) < MaxInFlight
  /\ Post(request.body, request.forwardedFor)

NextSdk ==
  \/ \E request \in InFlightRequests : Accept(request)
  \/ \E p \in pending : \E reply \in Memo_PolishReplies(p.baseLetter) :
       PolishReturn(p, reply)
  \/ \E p \in pending : PolishThrow(p)
  \/ \E p \in pending : ChatRetry(p)
  \/ \E p \in pending : PolishAbort(p)
  \/ \E step \in TickSteps : Tick(step)

SpecSdk == InitSdk /\ [][NextSdk]_vars

\* C21: handling one request issues at most one call to the external
\* text-generation service; after a failed call the handler falls back to
\* the template letter and does not call the service again.
C21_AtMostOneCall ==
  \A p \in pending : p.creates <= 1

\* The timers of the event loop fire: Date.now() moves on and the abort
\* timer of a waiting call runs once its time has come. Nothing is assumed
\* of the external service, which may never answer.
SpecSdkFair ==
  /\ InitSdk
  /\ [][NextSdk]_vars
  /\ WF_vars(\E step \in TickSteps : Tick(step))
  /\ WF_vars(\E p \in pending : PolishAbort(p))

\* Request id waits for generateStructuredJson.
Waiting(id) == \E p \in pending : p.id = id

\* Request id waits for it after the step.
StillWaiting(id) == \E p \in pending' : p.id = id

\* The step sends the complete ok:true response of the waiting request p:
\* its base content with the base letter or an accepted rewrite as letter.
AnswersComplete(p) ==
  /\ response'.id = p.id
  /\ response'.status = 200
  /\ response'.ok
  /\ response'.input = p.input
  /\ response'.projections = p.projections
  /\ DOMAIN response'.content = DOMAIN p.base
  /\ \A key \in DOMAIN p.base \ {"letter", "disclaimer"} :
       response'.content[key] = p.base[key]
  /\ response'.content.disclaimer # <<>>
  /\ \/ response'.content.letter = p.baseLetter
     \/ Memo_polishValid(response'.content.letter)

----------------------------------------------------------------------------
(* parseLetterInput on its own: one body is drawn and validated.           *)

Null == [t |-> "null", v |-> 0, whole |-> FALSE]

Forty == [i \in 1..40 |-> 12354]

\* The values one numeric field is tried with: the ends of its range, one
\* step outside them, a fraction, the same numbers spelled as strings, and
\* values that are no number at all.
FieldValues(spec) ==
  { Num(spec.min), Num(spec.max), Num(spec.min - 1), Num(spec.max + 1),
    Frac(spec.min),
    Str(NumberText(spec.max)), Str(<<32>> (*   *) \o NumberText(spec.min) \o <<32>> (*   *)),
    Str(NumberText(spec.max + 1)), Str(<<45, 49>> (* -1 *)), Str(NumberText(spec.min) \o <<46, 53>> (* .5 *)),
    Str(<<>>), Str(<<32, 32>> (*    *)), Str(<<97, 98, 99>> (* abc *)), Undefined, Null }

GoalValues ==
  { Str(GoalText(g)) : g \in GOALS }
    \cup { Str(<<104, 111, 117, 115, 101>> (* house *)), Str(<<79, 116, 104, 101, 114>> (* Other *)), Str(<<>>), Num(1), Undefined, Null }

GoalOtherValues ==
  { Str(text) : text \in GoalOtherTexts }
    \cup { Str(Forty), Str(Forty \o <<12354>> (* あ *)), Str(<<32>> (*   *) \o Forty \o <<32>> (*   *)),
           Str(<<32>> (*   *) \o Forty \o <<12354>> (* あ *)), Str(<<>>), Num(40), Undefined, Null }

ParsePayloads ==
  LET base == Payload(TestProfile, Str(<<109, 111, 114, 116, 103, 97, 103, 101>> (* mortgage *)), Undefined)
  IN { [t |-> "null"], [t |-> "undefined"], [t |-> "string"], [t |-> "number"] }
       \cup UNION { { [base EXCEPT ![FIELD_SPECS[i].key] = value] :
                        value \in FieldValues(FIELD_SPECS[i]) } :
                    i \in 1..Len(FIELD_SPECS) }
       \cup { [base EXCEPT !.goal = goal] : goal \in GoalValues }
       \cup { [base EXCEPT !.goal = Str(<<111, 116, 104, 101, 114>> (* other *)), !.goal_other = other] :
                other \in GoalOtherValues }
       \cup { [base EXCEPT !.goal = Str(<<102, 105, 114, 101>> (* fire *)), !.goal_other = other] :
                other \in GoalOtherValues }
       \cup { [base EXCEPT !.age = Num(17), !.goal = Str(<<104, 111, 117, 115, 101>> (* house *))],
              [base EXCEPT !.kids_future = Str(<<97, 98, 99>> (* abc *)), !.age = Num(81)],
              [base EXCEPT !.age = Undefined, !.household_now = Undefined,
                           !.kids_future = Undefined,
                           !.annual_income_jpy = Undefined,
                           !.monthly_savings_jpy = Undefined,
                           !.current_savings_jpy = Undefined,
                           !.monthly_invest_jpy = Undefined,
                           !.current_invest_jpy = Undefined,
                           !.goal = Undefined] }

InitParse ==
  /\ input = <<>>
  /\ projections = <<>>
  /\ variant = 0
  /\ severityOverride = NoOverride
  /\ letter = <<>>
  /\ op = "none"
  /\ parsePayload \in ParsePayloads
  /\ parseResult = <<>>
  /\ sevenLines = <<>>
  /\ ServerIdle

ParseLetterInput ==
  /\ parseResult = <<>>
  /\ parseResult' = parseLetterInput(parsePayload)
  /\ UNCHANGED << input, projections, variant, severityOverride, letter, op,
                  parsePayload, sevenLines >>
  /\ UNCHANGED serverVars

NextParse == ParseLetterInput

SpecParse == InitParse /\ [][NextParse]_vars

RejectionCodes ==
  {"invalid_body", "invalid_type", "out_of_range", "invalid_goal",
   "invalid_goal_other"}

Parsed == parseResult # <<>>

\* <<n>> when the value stands for the integer n: a number that is an
\* integer, or a non-blank string that Number() converts to one.
IntegerValue(value) ==
  IF value.t = "number" THEN (IF value.whole THEN << value.v >> ELSE <<>>)
  ELSE IF value.t = "string" /\ Trim(value.v) # <<>> THEN StringToInteger(value.v)
  ELSE <<>>

FieldsInRange(record, Value(_)) ==
  \A i \in 1..Len(FIELD_SPECS) :
    /\ Value(record[FIELD_SPECS[i].key]) # <<>>
    /\ Value(record[FIELD_SPECS[i].key])[1] >= FIELD_SPECS[i].min
    /\ Value(record[FIELD_SPECS[i].key])[1] <= FIELD_SPECS[i].max

GoalEnumerated(record) ==
  /\ record.goal.t = "string"
  /\ \E g \in GOALS : record.goal.v = GoalText(g)

JsonInteger(value) ==
  IF value.t = "number" /\ value.whole THEN << value.v >> ELSE <<>>

\* C17 as stated: the result is ok:true exactly when the eight numeric
\* fields are integers inside their ranges, goal is enumerated and, for
\* goal other, goal_other is a string that is non-empty after trimming and
\* has at most 40 characters; every rejection has status 400 and one of
\* the five codes.
C17_OkExactlyWhenValid ==
  Parsed =>
    /\ parseResult.ok <=>
         /\ parsePayload.t = "object"
         /\ FieldsInRange(parsePayload, JsonInteger)
         /\ GoalEnumerated(parsePayload)
         /\ parsePayload.goal.v = <<111, 116, 104, 101, 114>> (* other *) =>
              /\ parsePayload.goal_other.t = "string"
              /\ Trim(parsePayload.goal_other.v) # <<>>
              /\ Len(Trim(parsePayload.goal_other.v)) <= 40
    /\ ~parseResult.ok =>
         parseResult.status = 400 /\ parseResult.code \in RejectionCodes

\* C17, amended: the result is ok:true exactly when each of the eight
\* numeric fields is an integer number, or a non-blank string that Number()
\* converts to an integer, inside its range, goal is enumerated and, for
\* goal other, goal_other is a string whose trimmed text is non-empty and
\* has at most 40 characters; every rejection has status 400 and one of
\* the five codes.
C17_OkExactlyWhenValidOrNumericString ==
  Parsed =>
    /\ parseResult.ok <=>
         /\ parsePayload.t = "object"
         /\ FieldsInRange(parsePayload, IntegerValue)
         /\ GoalEnumerated(parsePayload)
         /\ parsePayload.goal.v = <<111, 116, 104, 101, 114>> (* other *) =>
              /\ parsePayload.goal_other.t = "string"
              /\ Trim(parsePayload.goal_other.v) # <<>>
              /\ Len(Trim(parsePayload.goal_other.v)) <= 40
    /\ ~parseResult.ok =>
         parseResult.status = 400 /\ parseResult.code \in RejectionCodes

\* A body whose age is the string "80" has been accepted.
C17_Witness ==
  /\ Parsed
  /\ parseResult.ok
  /\ parsePayload.age.t = "string"
  /\ parseResult.data.age = 80

(* hasSevenLines on its own: src/unnamed/part_007 52-55 *)

\* A line of a letter, as the lines of the tests in part_003 57-70 are.
RealLine == <<34892>> (* 行 *)

\* The lines a generated letter may carry between its sentences: an empty
\* line, and lines of one space, one full-width space, one tab.
FillerLines == { <<>>, <<32>> (*   *), <<12288>> (* 　 *), <<9>> (* \t *) }

MinRealLines == 5

MaxRealLines == 8

\* count real lines with the filler line put after the first at of them.
linesWith(count, filler, at) ==
  [i \in 1..(count + 1) |->
     IF i = at + 1 THEN filler ELSE RealLine]

SevenLinesTexts ==
  { JoinLines([i \in 1..count |-> RealLine]) :
      count \in MinRealLines..MaxRealLines }
  \cup
  UNION { { JoinLines(linesWith(count, filler, at)) :
              filler \in FillerLines, at \in 0..count } :
          count \in MinRealLines..MaxRealLines }

InitSevenLines ==
  /\ Init
  /\ apiKey = <<>>

\* A caller hands a text to hasSevenLines.
TakeText(text) ==
  /\ letter = <<>>
  /\ letter' = text
  /\ op' = "text"
  /\ UNCHANGED << input, projections, variant, severityOverride,
                  parsePayload, parseResult, sevenLines >>
  /\ UNCHANGED serverVars

HasSevenLines ==
  /\ op = "text"
  /\ sevenLines = <<>>
  /\ sevenLines' = << hasSevenLines(letter) >>
  /\ UNCHANGED << input, projections, variant, severityOverride, letter, op,
                  parsePayload, parseResult >>
  /\ UNCHANGED serverVars

NextSevenLines ==
  \/ \E text \in SevenLinesTexts : TakeText(text)
  \/ HasSevenLines

SpecSevenLines == InitSevenLines /\ [][NextSevenLines]_vars

\* The lines of text that are non-empty after trimming.
TrimmedNonEmpty(text) ==
  SelectSeq(SplitLines(text), LAMBDA line : Trim(line) # <<>>)

\* C23: hasSevenLines(text) is true exactly when text, split on newlines,
\* has exactly 7 lines that are non-empty after trimming; empty and
\* whitespace-only lines are not counted.
C23_SevenTrimmedLines ==
  sevenLines # <<>> => (sevenLines[1] <=> Len(TrimmedNonEmpty(letter)) = 7)

====
